---- MODULE Spec2Model ----
(***************************************************************************)
(* A model of the text widget registry (src/src/text.rs) and of the        *)
(* editable text box with its undo/redo history (src/src/text_edit.rs).    *)
(*                                                                         *)
(* Strings are sequences of byte tokens ("a", "SP", "NL", "CR", ...), and  *)
(* byte ranges a..b are pairs <<a, b>> of 0-based offsets, as in Rust.     *)
(* Option values are sequences: None is <<>> and Some(x) is <<x>>.         *)
(***************************************************************************)
EXTENDS Integers, Sequences, FiniteSets, TLC

VARIABLES
    edit,                          \* one TextEdit (text_edit.rs:137-150)
    obs,                           \* observer of the edit's operations
    text_boxes,                    \* Text.text_boxes (text.rs:13)
    text_edits,                    \* Text.text_edits (text.rs:14)
    focused,                       \* Text.focused (text.rs:21)
    current_frame,                 \* Text.current_frame (text.rs:28)
    mouse,                         \* Text.input_state.mouse (text.rs:97-102)
    text_changed,                  \* Text.text_changed (text.rs:24)
    decorations_changed,           \* Text.decorations_changed (text.rs:26)
    using_frame_based_visibility,  \* Text.using_frame_based_visibility (text.rs:25)
    now,                           \* the clock read by Instant::now()
    crashed,                       \* a registry call panicked
    handles,                       \* the handles the host holds
    reg,                           \* observer of the registry's operations
    styles,                        \* Text.styles (text.rs:16)
    style_version_id_counter,      \* Text.style_version_id_counter (text.rs:17)
    text_box,                      \* a widget's style and layout fields (text.rs:751-759)
    shared_style,                  \* InnerStyle.version of a SharedStyle (text_box.rs:95-98)
    tbox,                          \* a TextBox<T> of text_box.rs (text_box.rs:38-60)
    sty,                           \* observer of the style and layout operations
    renderer                       \* the TextRenderer that prepare_all is given

editVars == <<edit, obs>>
styleVars == <<styles, style_version_id_counter, text_box, shared_style, tbox, sty>>
regVars == <<text_boxes, text_edits, focused, current_frame, mouse, text_changed,
             decorations_changed, using_frame_based_visibility, now, crashed,
             handles, reg, styleVars, renderer>>
vars == <<edit, obs, text_boxes, text_edits, focused, current_frame, mouse,
          text_changed, decorations_changed, using_frame_based_visibility, now,
          crashed, handles, reg, styleVars, renderer>>

----------------------------------------------------------------------------
(* Bounds of the model. *)

\* The longest buffer an operation may produce.
MaxLen == 2
\* The longest list of history entries.
MaxHist == 2
\* The longest undo_text / redo_text heap.
MaxHeap == 2
\* The longest buffer of the typing scenarios.
MaxTyped == 7
\* The longest buffer of the long typing runs.
MaxLong == 22
\* The longest buffer of the paste scenarios.
MaxPaste == 6
\* The longest buffer of the forward-deletion scenarios.
MaxDeleted == 3

----------------------------------------------------------------------------
(* Options, strings and ranges. *)

None == <<>>
Some(x) == <<x>>
IsSome(o) == o # <<>>
Unwrap(o) == o[1]

Min(a, b) == IF a <= b THEN a ELSE b
Max(a, b) == IF a >= b THEN a ELSE b

\* s[a..b] is defined (no panic) when a <= b <= s.len().
ValidRange(s, r) == 0 <= r[1] /\ r[1] <= r[2] /\ r[2] <= Len(s)
\* &s[a..b]
Slice(s, r) == SubSeq(s, r[1] + 1, r[2])
\* String::replace_range(a..b, t)
ReplaceRange(s, r, t) == SubSeq(s, 1, r[1]) \o t \o SubSeq(s, r[2] + 1, Len(s))
\* String::insert_str(i, t)
InsertStr(s, i, t) == SubSeq(s, 1, i) \o t \o SubSeq(s, i + 1, Len(s))
\* Range::is_empty()
RangeIsEmpty(r) == ~(r[1] < r[2])
\* Range::len()
RangeLen(r) == IF r[1] < r[2] THEN r[2] - r[1] ELSE 0

\* char::is_whitespace() on the tokens of the model
IsWhitespaceChar(c) == c \in {"SP", "NL", "CR"}
\* char::is_ascii_punctuation()
IsPunctChar(c) == c \in {"."}
\* WhitespaceStr::is_whitespace
IsWhitespaceStr(s) == \A i \in 1..Len(s) : IsWhitespaceChar(s[i]) \/ IsPunctChar(s[i])

\* remove_newlines_inplace: every '\n' and '\r' byte becomes a space.
\* A replacement that leaves the carriage returns.
RemoveLineFeedsOnly(text) ==
    [i \in 1..Len(text) |-> IF text[i] = "NL" THEN "SP" ELSE text[i]]
remove_newlines_inplace(text) ==
    [i \in 1..Len(text) |-> IF text[i] \in {"NL", "CR"} THEN "SP" ELSE text[i]]

HasNewline(text) == \E i \in 1..Len(text) : text[i] \in {"NL", "CR"}

----------------------------------------------------------------------------
(* Selection: the byte indices of parley's anchor and focus cursors. *)

Sel(a, f) == [anchor |-> a, focus |-> f]
Caret(i) == Sel(i, i)
\* Selection::text_range()
text_range(s) == <<Min(s.anchor, s.focus), Max(s.anchor, s.focus)>>
\* Selection::is_collapsed()
is_collapsed(s) == s.anchor = s.focus

----------------------------------------------------------------------------
(* TextEditHistory *)

MAX_GROWABLE_SIZE == 20

Ranges(ins, del) == [inserted_range |-> ins, deleted_range |-> del]
is_delete_only(r) == RangeIsEmpty(r.inserted_range)
is_insert_only(r) == RangeIsEmpty(r.deleted_range)

Hint(k, n) == [kind |-> k, size |-> n]
CannotGrow == Hint("CannotGrow", 0)

\* TextEditHistory::new
NewHistory ==
    [undo_text |-> <<>>, redo_text |-> <<>>, history |-> <<>>,
     current_position |-> 0, can_grow |-> CannotGrow]

Last(s) == s[Len(s)]
SetLast(s, x) == [s EXCEPT ![Len(s)] = x]

\* record that keeps the undone entries.
KeepFuture(h) == h
\* record that drops the undone entries and leaves their text in undo_text.
TruncateKeepsText(h) ==
    IF h.current_position < Len(h.history)
    THEN [h EXCEPT !.redo_text = <<>>, !.history = SubSeq(@, 1, h.current_position)]
    ELSE h
\* record, lines 1361-1366: drop the redo tail.
TruncateFuture(h) ==
    IF h.current_position < Len(h.history)
    THEN LET undo_trunc == h.history[h.current_position + 1].undo.deleted_range[1]
         IN [h EXCEPT !.undo_text = SubSeq(@, 1, Min(undo_trunc, Len(@))),
                      !.redo_text = <<>>,
                      !.history = SubSeq(@, 1, h.current_position)]
    ELSE h

push_new(h, old_str, selection, inserted_range) ==
    LET start == Len(h.undo_text)
        undo_range == <<start, start + Len(old_str)>>
    IN [h EXCEPT !.undo_text = @ \o old_str,
                 !.history = Append(@, [prev_selection |-> selection,
                                        undo |-> Ranges(inserted_range, undo_range),
                                        redo |-> None]),
                 !.current_position = @ + 1]

\* merge_delete that stores the newly deleted text after the stored text.
MergeDeleteAppends(h, old_str, inserted_range) ==
    LET last == Last(h.history)
        start == last.undo.deleted_range[1]
        undo_text == h.undo_text \o old_str
    IN [h EXCEPT !.undo_text = undo_text,
                 !.history = SetLast(@, [last EXCEPT
                                  !.undo = Ranges(inserted_range, <<start, Len(undo_text)>>)])]
merge_delete(h, old_str, inserted_range) ==
    LET last == Last(h.history)
        start == last.undo.deleted_range[1]
        undo_text == InsertStr(h.undo_text, start, old_str)
    IN [h EXCEPT !.undo_text = undo_text,
                 !.history = SetLast(@, [last EXCEPT
                                  !.undo = Ranges(inserted_range, <<start, Len(undo_text)>>)])]

\* The two GrowableInsert arms of record.
GrowInsert(h, inserted_range) ==
    [h EXCEPT !.history = SetLast(@, [Last(@) EXCEPT
                                  !.undo.inserted_range[2] = inserted_range[2]])]

\* A hint that never lets the next edit grow the entry.
SetNoGrowHint(h, new_str, old_str) == [h EXCEPT !.can_grow = CannotGrow]
set_grow_hint(h, new_str, old_str) ==
    LET last_op == Last(h.history).undo IN
    [h EXCEPT !.can_grow =
        IF is_insert_only(last_op)
        THEN IF new_str = <<>> THEN CannotGrow
             ELSE IF IsWhitespaceChar(Last(new_str))
                  THEN Hint("GrowableInsertWhitespace", Len(new_str))
                  ELSE Hint("GrowableInsert", Len(new_str))
        ELSE IF is_delete_only(last_op)
        THEN IF old_str = <<>> THEN CannotGrow
             ELSE IF IsWhitespaceChar(Last(old_str))
                  THEN Hint("GrowableDeleteWhitespace", Len(old_str))
                  ELSE Hint("GrowableDelete", Len(old_str))
        ELSE CannotGrow]

\* record with the delete arms merging whatever the inserted range is.
RecordMergesReplacements(h0, old_str, new_str, selection, inserted_range) ==
    LET h == TruncateFuture(h0)
        g == h.can_grow
        grown ==
            IF h.history = <<>> THEN push_new(h, old_str, selection, inserted_range)
            ELSE CASE g.kind \in {"GrowableInsert", "GrowableInsertWhitespace"}
                        /\ old_str = <<>>
                        -> GrowInsert(h, inserted_range)
                   [] g.kind \in {"GrowableDelete", "GrowableDeleteWhitespace"}
                        -> merge_delete(h, old_str, inserted_range)
                   [] OTHER -> push_new(h, old_str, selection, inserted_range)
    IN set_grow_hint(grown, new_str, old_str)

\* record with an insertion growing the entry whatever follows a space.
RecordGrowsAcrossSpace(h0, old_str, new_str, selection, inserted_range) ==
    LET h == TruncateFuture(h0)
        g == h.can_grow
        small == g.size < MAX_GROWABLE_SIZE
        grown ==
            IF h.history = <<>> THEN push_new(h, old_str, selection, inserted_range)
            ELSE CASE g.kind \in {"GrowableInsert", "GrowableInsertWhitespace"}
                        /\ old_str = <<>> /\ small
                        -> GrowInsert(h, inserted_range)
                   [] g.kind = "GrowableDelete" /\ RangeIsEmpty(inserted_range) /\ small
                        -> merge_delete(h, old_str, inserted_range)
                   [] g.kind = "GrowableDeleteWhitespace" /\ RangeIsEmpty(inserted_range)
                        /\ IsWhitespaceStr(old_str) /\ small
                        -> merge_delete(h, old_str, inserted_range)
                   [] OTHER -> push_new(h, old_str, selection, inserted_range)
    IN set_grow_hint(grown, new_str, old_str)

\* TextEditHistory::record
record(h0, old_str, new_str, selection, inserted_range) ==
    LET h == TruncateFuture(h0)
        g == h.can_grow
        small == g.size < MAX_GROWABLE_SIZE
        grown ==
            IF h.history = <<>> THEN push_new(h, old_str, selection, inserted_range)
            ELSE CASE g.kind = "GrowableInsert" /\ old_str = <<>> /\ small
                        -> GrowInsert(h, inserted_range)
                   [] g.kind = "GrowableInsertWhitespace" /\ old_str = <<>>
                        /\ IsWhitespaceStr(new_str) /\ small
                        -> GrowInsert(h, inserted_range)
                   [] g.kind = "GrowableDelete" /\ RangeIsEmpty(inserted_range) /\ small
                        -> merge_delete(h, old_str, inserted_range)
                   [] g.kind = "GrowableDeleteWhitespace" /\ RangeIsEmpty(inserted_range)
                        /\ IsWhitespaceStr(old_str) /\ small
                        -> merge_delete(h, old_str, inserted_range)
                   [] OTHER -> push_new(h, old_str, selection, inserted_range)
    IN set_grow_hint(grown, new_str, old_str)

\* The TextRestore an undo or redo returns; ok is FALSE when a slice it takes
\* is out of range (the call panics).
Restore(ok, clear, text, sel) ==
    [ok |-> ok, range_to_clear |-> clear, text_to_restore |-> text, prev_selection |-> sel]

\* TextEditHistory::undo, for current_position > 0: <<history', TextRestore>>.
history_undo(h, buffer) ==
    LET pos == h.current_position - 1
        last == h.history[pos + 1]
        undo_text == last.undo.deleted_range
        clear == last.undo.inserted_range
        ok == ValidRange(h.undo_text, undo_text)
              /\ (last.redo = None => ValidRange(buffer, clear))
        redo_text == Slice(buffer, clear)
        a == clear[1]
        start == Len(h.redo_text)
        filled == IF last.redo = None
                  THEN [h EXCEPT !.redo_text = @ \o redo_text,
                                 !.history[pos + 1].redo =
                                     Some(Ranges(<<a, a + RangeLen(undo_text)>>,
                                                 <<start, start + Len(redo_text)>>))]
                  ELSE h
    IN IF ok
       THEN <<[filled EXCEPT !.current_position = pos],
              Restore(TRUE, clear, Slice(h.undo_text, undo_text), last.prev_selection)>>
       ELSE <<[h EXCEPT !.current_position = pos],
              Restore(FALSE, clear, <<>>, last.prev_selection)>>

\* TextEditHistory::redo, for current_position < history.len().
history_redo(h) ==
    LET last == h.history[h.current_position + 1]
        ok == last.redo # None /\ ValidRange(h.redo_text, Unwrap(last.redo).deleted_range)
        redo == Unwrap(last.redo)
    IN IF ok
       THEN <<[h EXCEPT !.current_position = @ + 1],
              Restore(TRUE, redo.inserted_range, Slice(h.redo_text, redo.deleted_range),
                      last.prev_selection)>>
       ELSE <<[h EXCEPT !.current_position = @ + 1],
              Restore(FALSE, <<0, 0>>, <<>>, last.prev_selection)>>

----------------------------------------------------------------------------
(* TextEdit *)

\* TextEdit::new (multi-line, no placeholder, empty history).
NewTextEdit(text) ==
    [text |-> text, sel |-> Caret(0), compose |-> None, show_cursor |-> TRUE,
     single_line |-> FALSE, newline_mode |-> "Enter", disabled |-> FALSE,
     hidden |-> FALSE, showing_placeholder |-> FALSE, placeholder_text |-> None,
     should_follow_cursor |-> FALSE, needs_relayout |-> TRUE,
     history |-> NewHistory, panicked |-> FALSE]

\* A call that panics (a slice out of range, a failed assertion) ends the run.
Panic(e) == [e EXCEPT !.panicked = TRUE]

is_composing(e) == e.compose # None

\* TextEdit::remove_newlines
remove_newlines(e) ==
    IF HasNewline(e.text)
    THEN [e EXCEPT !.text = remove_newlines_inplace(@), !.needs_relayout = TRUE]
    ELSE e

StripIfSingleLine(e) == IF e.single_line THEN remove_newlines(e) ELSE e

\* the clear_placeholder! macro and TextEdit::clear_placeholder
clear_placeholder(e) ==
    IF e.showing_placeholder
    THEN [e EXCEPT !.text = <<>>, !.showing_placeholder = FALSE,
                   !.needs_relayout = TRUE, !.sel = Caret(0)]
    ELSE e

restore_placeholder_if_any(e) ==
    IF e.placeholder_text # None /\ e.text = <<>> /\ ~e.showing_placeholder
    THEN [e EXCEPT !.text = Unwrap(e.placeholder_text), !.showing_placeholder = TRUE,
                   !.needs_relayout = TRUE, !.sel = Caret(0)]
    ELSE e

\* TextEdit::replace_selection
replace_selection(e, s) ==
    LET range == text_range(e.sel)
        start == range[1]
    IN IF ~ValidRange(e.text, range) THEN Panic(e)
       ELSE LET put == IF is_collapsed(e.sel)
                       THEN [e EXCEPT !.text = InsertStr(@, start, s)]
                       ELSE [e EXCEPT !.text = ReplaceRange(@, range, s)]
            IN [StripIfSingleLine(put) EXCEPT !.sel = Caret(start + Len(s))]

\* TextEdit::replace_selection_and_record
replace_selection_and_record(e, s) ==
    LET range == text_range(e.sel) IN
    IF ~ValidRange(e.text, range) THEN Panic(e)
    ELSE replace_selection(
             [e EXCEPT !.history = record(@, Slice(e.text, range), s, e.sel,
                                          <<range[1], range[1] + Len(s)>>)], s)

\* TextEdit::replace_range_and_record
replace_range_and_record(e, range, old_selection, s) ==
    IF ~ValidRange(e.text, range) THEN Panic(e)
    ELSE StripIfSingleLine(
             [e EXCEPT !.history = record(@, Slice(e.text, range), s, old_selection,
                                          <<range[1], range[1] + Len(s)>>),
                       !.text = ReplaceRange(@, range, s)])

\* TextEdit::insert_or_replace_selection
insert_or_replace_selection(e, s) ==
    IF is_composing(e) THEN Panic(e)
    ELSE replace_selection_and_record(clear_placeholder(e), s)

\* TextEdit::delete_selection
delete_selection(e) == insert_or_replace_selection(e, <<>>)

\* The byte range of the layout's cluster that holds byte b (0-based): a
\* "\r\n" pair is one cluster, every other byte is its own.
ClusterRange(text, b) ==
    IF text[b + 1] = "CR" /\ b + 2 <= Len(text) /\ text[b + 2] = "NL" THEN <<b, b + 2>>
    ELSE IF text[b + 1] = "NL" /\ b >= 1 /\ text[b] = "CR" THEN <<b - 1, b + 1>>
    ELSE <<b, b + 1>>
\* Cluster::is_hard_line_break
IsHardLineBreak(text, r) == text[r[2]] = "NL"
\* The byte offsets a caret can stand at.
CaretPositions(text) ==
    {i \in 0..Len(text) : ~(1 <= i /\ i < Len(text) /\ text[i] = "CR" /\ text[i + 1] = "NL")}

\* TextEdit::delete
delete(e) ==
    IF is_composing(e) THEN Panic(e)
    ELSE IF is_collapsed(e.sel)
    THEN IF e.sel.focus < Len(e.text)
         THEN [replace_range_and_record(e, ClusterRange(e.text, e.sel.focus), e.sel, <<>>)
                   EXCEPT !.needs_relayout = TRUE]
         ELSE e
    ELSE delete_selection(e)

\* TextEdit::backdelete
backdelete(e) ==
    IF is_composing(e) THEN Panic(e)
    ELSE IF is_collapsed(e.sel)
    THEN IF 1 <= e.sel.focus /\ e.sel.focus <= Len(e.text)
         THEN LET range == ClusterRange(e.text, e.sel.focus - 1)
                  end == range[2]
                  start == IF IsHardLineBreak(e.text, range) THEN range[1] ELSE end - 1
              IN [replace_range_and_record(e, <<start, end>>, e.sel, <<>>)
                     EXCEPT !.needs_relayout = TRUE, !.sel = Caret(start)]
         ELSE e
    ELSE delete_selection(e)

\* TextEdit::set_compose; cursor is None or Some(<<a, b>>).
set_compose(e, text, cursor) ==
    LET c == IF cursor = None THEN <<0, 0>> ELSE Unwrap(cursor)
        done(e2, start) ==
            [e2 EXCEPT !.compose = Some(<<start, start + Len(text)>>),
                       !.show_cursor = (cursor # None),
                       !.sel = Sel(start + c[1], start + c[2]),
                       !.needs_relayout = TRUE]
    IN IF is_composing(e)
       THEN LET preedit_range == Unwrap(e.compose) IN
            IF ~ValidRange(e.text, preedit_range) THEN Panic(e)
            ELSE done([e EXCEPT !.text = ReplaceRange(@, preedit_range, text)],
                      preedit_range[1])
       ELSE LET range == text_range(e.sel) IN
            IF ~ValidRange(e.text, range) THEN Panic(e)
            ELSE IF is_collapsed(e.sel)
            THEN done(StripIfSingleLine([e EXCEPT !.text = InsertStr(@, range[1], text)]),
                      range[1])
            ELSE done([e EXCEPT !.text = ReplaceRange(@, range, text)], range[1])

\* TextEdit::clear_compose
ClearComposeKeepsPreedit(e) ==
    IF is_composing(e)
    THEN [e EXCEPT !.compose = None, !.show_cursor = TRUE,
                   !.sel = Caret(Min(Unwrap(e.compose)[1], Len(e.text)))]
    ELSE e
clear_compose(e) ==
    IF is_composing(e)
    THEN LET preedit_range == Unwrap(e.compose) IN
         IF ~ValidRange(e.text, preedit_range) THEN Panic([e EXCEPT !.compose = None])
         ELSE LET text == ReplaceRange(e.text, preedit_range, <<>>) IN
              [e EXCEPT !.compose = None, !.text = text, !.show_cursor = TRUE,
                        !.sel = Caret(IF preedit_range[1] >= Len(text) THEN Len(text)
                                      ELSE preedit_range[1])]
    ELSE e

\* TextEdit::undo
undo(e) ==
    IF is_composing(e) \/ e.history.current_position = 0 THEN e
    ELSE LET r == history_undo(e.history, e.text)
             op == r[2]
             e1 == [e EXCEPT !.history = r[1]]
         IN IF ~op.ok THEN Panic(e1)
            ELSE LET e2 == IF op.text_to_restore # <<>> THEN clear_placeholder(e1) ELSE e1 IN
                 IF ~ValidRange(e2.text, op.range_to_clear) THEN Panic(e2)
                 ELSE StripIfSingleLine(
                          [e2 EXCEPT !.text = InsertStr(ReplaceRange(@, op.range_to_clear, <<>>),
                                                        op.range_to_clear[1], op.text_to_restore),
                                     !.sel = op.prev_selection])

\* TextEdit::redo
redo(e) ==
    IF is_composing(e) \/ e.history.current_position >= Len(e.history.history) THEN e
    ELSE LET r == history_redo(e.history)
             op == r[2]
             e1 == [e EXCEPT !.history = r[1]]
         IN IF ~op.ok \/ ~ValidRange(e1.text, op.range_to_clear) THEN Panic(e1)
            ELSE LET e2 == [e1 EXCEPT !.text = ReplaceRange(@, op.range_to_clear, <<>>)]
                     e3 == IF op.text_to_restore # <<>> THEN clear_placeholder(e2) ELSE e2
                     start == op.range_to_clear[1]
                 IN IF start > Len(e3.text) THEN Panic(e3)
                    ELSE StripIfSingleLine(
                             [e3 EXCEPT !.text = InsertStr(@, start, op.text_to_restore),
                                        !.sel = Caret(start + Len(op.text_to_restore))])

\* TextEdit::set_text; the caret goes to the end of the text (move_to_text_end).
set_text(e, new_text) ==
    [e EXCEPT !.text = new_text, !.needs_relayout = TRUE, !.sel = Caret(Len(new_text)),
              !.compose = None, !.show_cursor = TRUE, !.showing_placeholder = FALSE]

\* TextEdit::set_placeholder; reset_selection collapses the selection.
set_placeholder(e, placeholder) ==
    IF e.text = <<>> \/ e.showing_placeholder
    THEN [e EXCEPT !.placeholder_text = Some(placeholder), !.text = placeholder,
                   !.needs_relayout = TRUE, !.showing_placeholder = TRUE,
                   !.sel = Caret(e.sel.anchor)]
    ELSE [e EXCEPT !.placeholder_text = Some(placeholder)]

\* TextEdit::set_newline_mode
\* A set_newline_mode that does not look at single_line.
SetNewlineModeAlways(e, mode) == [e EXCEPT !.newline_mode = mode]

set_newline_mode(e, mode) == IF ~e.single_line THEN [e EXCEPT !.newline_mode = mode] ELSE e

\* TextEdit::set_disabled and TextEdit::set_hidden
set_disabled(e, disabled) == [e EXCEPT !.disabled = disabled]
set_hidden(e, hidden) == [e EXCEPT !.hidden = hidden]

\* TextEdit::set_single_line
set_single_line(e, single_line) ==
    IF e.single_line # single_line
    THEN IF single_line
         THEN remove_newlines([e EXCEPT !.single_line = TRUE, !.needs_relayout = TRUE,
                                        !.newline_mode = "None"])
         ELSE [e EXCEPT !.single_line = FALSE, !.needs_relayout = TRUE,
                        !.newline_mode = "Enter"]
    ELSE e

----------------------------------------------------------------------------
(* TextEdit::handle_event, one operator per kind of window event. *)

\* The end of handle_event_editable (lines 879-889).
Finish(e, changed) ==
    IF e.panicked THEN e
    ELSE [restore_placeholder_if_any(e) EXCEPT !.should_follow_cursor = @ \/ changed]

\* TextEventResult::new
NewTextEventResult == [text_changed |-> FALSE, decorations_changed |-> FALSE]

\* A dispatcher that tests the disabled flag only.
DispatchDisabledOnly(e, handled) == IF e.disabled THEN e ELSE handled
\* handle_event (lines 173-179) and the hidden check of handle_event_editable.
Dispatch(e, handled) == IF e.disabled \/ e.hidden THEN e ELSE handled

\* What handle_event returns, given the result the rest of
\* handle_event_editable builds for the event.
handle_event_result(e, result) ==
    IF e.disabled \/ e.hidden THEN NewTextEventResult ELSE result

\* KeyboardInput, Key::Character(s) or Space, no action modifier.
on_key_character(e, s) ==
    Dispatch(e, IF is_composing(e) THEN Finish(e, FALSE)
                ELSE Finish(insert_or_replace_selection(e, s), TRUE))

\* A match that looks at one modifier only.
NewlineModeOneModifier(mode, shift, action_mod) ==
    CASE mode = "Enter" -> ~action_mod /\ ~shift
      [] mode = "ShiftEnter" -> shift
      [] mode = "CtrlEnter" -> action_mod
      [] OTHER -> FALSE

newline_mode_matches(mode, shift, action_mod) ==
    CASE mode = "Enter" -> ~action_mod /\ ~shift
      [] mode = "ShiftEnter" -> shift /\ ~action_mod
      [] mode = "CtrlEnter" -> action_mod /\ ~shift
      [] OTHER -> FALSE

\* KeyboardInput, NamedKey::Enter.
on_key_enter(e, shift, action_mod) ==
    Dispatch(e, IF ~is_composing(e) /\ ~e.single_line
                   /\ newline_mode_matches(e.newline_mode, shift, action_mod)
                THEN Finish(insert_or_replace_selection(e, <<"NL">>), TRUE)
                ELSE Finish(e, FALSE))

\* KeyboardInput, NamedKey::Backspace, no action modifier.
on_key_backspace(e) ==
    Dispatch(e, IF is_composing(e) THEN Finish(e, FALSE) ELSE Finish(backdelete(e), TRUE))

\* KeyboardInput, NamedKey::Delete, no action modifier.
on_key_delete(e) ==
    Dispatch(e, IF is_composing(e) \/ e.showing_placeholder THEN Finish(e, FALSE)
                ELSE Finish(delete(e), TRUE))

\* KeyboardInput, action modifier + "v": the clipboard holds clip.
on_key_paste(e, clip) ==
    Dispatch(e, IF is_composing(e) THEN Finish(e, FALSE)
                ELSE Finish(insert_or_replace_selection(e, clip), TRUE))

\* KeyboardInput, action modifier + "x".
on_key_cut(e) ==
    Dispatch(e, IF is_composing(e) \/ is_collapsed(e.sel) THEN Finish(e, FALSE)
                ELSE Finish(delete_selection(e), TRUE))

\* KeyboardInput, action modifier + "z", without and with Shift.
on_key_undo(e) ==
    Dispatch(e, IF is_composing(e) THEN Finish(e, FALSE) ELSE Finish(undo(e), TRUE))
on_key_redo(e) ==
    Dispatch(e, IF is_composing(e) THEN Finish(e, FALSE) ELSE Finish(redo(e), TRUE))

\* KeyboardInput, an arrow, Home or End key without Shift: the layout puts
\* the caret at offset i.
on_key_move(e, i) ==
    Dispatch(e, IF is_composing(e) \/ e.showing_placeholder THEN Finish(e, FALSE)
                ELSE Finish([e EXCEPT !.should_follow_cursor = TRUE, !.sel = Caret(i)], FALSE))

\* TextEdit::select_all: the selection spans the whole buffer.
select_all(e) == [e EXCEPT !.sel = Sel(0, Len(e.text))]

\* Ime::Disabled
on_ime_disabled(e) == Dispatch(e, Finish(clear_compose(e), TRUE))

\* Ime::Commit(text)
on_ime_commit(e, text) ==
    Dispatch(e, Finish(insert_or_replace_selection(
                           [clear_placeholder(e) EXCEPT !.should_follow_cursor = TRUE], text),
                       TRUE))

\* Ime::Preedit(text, cursor)
on_ime_preedit(e, text, cursor) ==
    LET e1 == [clear_placeholder(e) EXCEPT !.should_follow_cursor = TRUE] IN
    Dispatch(e, IF text = <<>> THEN Finish(clear_compose(e1), TRUE)
                ELSE Finish(set_compose(e1, text, cursor), TRUE))

----------------------------------------------------------------------------
(* The inputs of the edit model. *)

\* The texts a TextEdit is created with.
InitTexts == {<<>>, <<"a", "b">>}
\* The characters typed.
TypedChars == {"c"}
\* What the clipboard may hold on a paste.
Clips == {<<>>, <<"c", "NL">>, <<"CR", "NL">>}
\* What the clipboard holds in the paste scenarios.
PasteClips == {<<"a", "NL", "b", "CR", "NL", "c">>, <<"CR", "NL">>}
\* The preedit strings and commits of the IME.
Preedits == {<<"k">>, <<"k", "NL">>}
\* The arguments of set_text and set_placeholder.
SetTexts == {<<>>, <<"a", "NL">>}
Placeholders == {<<"p">>, <<"p", "NL">>}
\* The values of NewlineMode.
NewlineModes == {"Enter", "ShiftEnter", "CtrlEnter", "None"}

\* The states the model keeps: buffers and history heaps of bounded length.
Bounded(e) ==
    /\ Len(e.text) <= MaxLen
    /\ Len(e.history.history) <= MaxHist
    /\ Len(e.history.undo_text) <= MaxHeap
    /\ Len(e.history.redo_text) <= MaxHeap

----------------------------------------------------------------------------
(* The observer of the edit: what the properties need to remember of the   *)
(* operations performed so far.  It reads the edit and never writes it.     *)
(*   last      the kind of the last operation; "undo" only for an undo that *)
(*             was possible, "undo_redo" for a redo right after it          *)
(*   phase     "fresh" before the first recorded edit, "edits" while only   *)
(*             edits and caret moves followed it, "undoing" while only      *)
(*             undos followed those, "void" otherwise                       *)
(*   text0, sel0   buffer and selection before the first recorded edit      *)
(*   pre_undo  the buffer before the last undo                              *)
(*   base      during a composition: the buffer and the selected range at   *)
(*             the first set_compose call, and whether more calls followed  *)
(*   cleared   right after the clear_compose call that ended it: the buffer *)
(*             as that call left it                                         *)
(***************************************************************************)

NewObs ==
    [last |-> "new", phase |-> "fresh", text0 |-> <<>>, sel0 |-> Caret(0),
     pre_undo |-> <<>>, base |-> None, cleared |-> None]

ObsPhase(kind, e, e2) ==
    CASE obs.phase = "fresh" /\ kind = "edit" ->
             IF e2.history.history # <<>> THEN "edits" ELSE "fresh"
      [] obs.phase = "fresh" /\ kind = "move" -> "fresh"
      [] obs.phase = "edits" /\ kind \in {"edit", "move"} -> "edits"
      [] obs.phase \in {"edits", "undoing"} /\ kind = "undo" -> "undoing"
      [] OTHER -> "void"

ObsLast(kind, e) ==
    IF kind = "undo"
    THEN IF ~is_composing(e) /\ e.history.current_position > 0 THEN "undo" ELSE "noop"
    ELSE IF kind = "redo" /\ obs.last = "undo" THEN "undo_redo"
    ELSE kind

\* The buffer as the set_compose / clear_compose call of an IME event finds it.
AtImeCall(e) == clear_placeholder(e)

ObsBase(kind, e, e2) ==
    IF e2.panicked \/ ~is_composing(e2) \/ kind \in {"api", "commit"} THEN None
    ELSE IF kind = "preedit"
    THEN IF ~is_composing(e)
         THEN Some([text |-> AtImeCall(e).text, range |-> text_range(AtImeCall(e).sel),
                    many |-> FALSE])
         ELSE IF obs.base # None THEN Some([Unwrap(obs.base) EXCEPT !.many = TRUE])
         ELSE None
    ELSE obs.base

Observe(kind, e, e2) ==
    LET phase == ObsPhase(kind, e, e2)
        last == ObsLast(kind, e)
        ended == kind = "clear" /\ is_composing(e) /\ obs.base # None /\ ~e2.panicked
    IN [last |-> last,
        phase |-> phase,
        text0 |-> IF phase = "void" \/ phase = "fresh" THEN <<>>
                  ELSE IF obs.phase = "fresh" THEN e.text ELSE obs.text0,
        sel0 |-> IF phase = "void" \/ phase = "fresh" THEN Caret(0)
                 ELSE IF obs.phase = "fresh" THEN e.sel ELSE obs.sel0,
        pre_undo |-> IF last = "undo" THEN e.text
                     ELSE IF last = "undo_redo" THEN obs.pre_undo ELSE <<>>,
        base |-> IF ended THEN obs.base ELSE ObsBase(kind, e, e2),
        cleared |-> IF ended THEN Some(clear_compose(AtImeCall(e)).text) ELSE None]

----------------------------------------------------------------------------
(* The actions of the edit model: one per event or API call. *)

EditStep(kind, e2) ==
    /\ ~edit.panicked
    /\ Bounded(e2)
    /\ edit' = e2
    /\ obs' = Observe(kind, edit, e2)
    /\ UNCHANGED regVars

KeyCharacter == \E c \in TypedChars : EditStep("edit", on_key_character(edit, <<c>>))
KeySpace == EditStep("edit", on_key_character(edit, <<"SP">>))
KeyEnter == \E shift \in BOOLEAN, action_mod \in BOOLEAN :
                EditStep("edit", on_key_enter(edit, shift, action_mod))
KeyBackspace == EditStep("edit", on_key_backspace(edit))
KeyDelete == EditStep("edit", on_key_delete(edit))
KeyPaste == \E clip \in Clips : EditStep("edit", on_key_paste(edit, clip))
KeyCut == EditStep("edit", on_key_cut(edit))
KeyUndo == EditStep("undo", on_key_undo(edit))
KeyRedo == EditStep("redo", on_key_redo(edit))
KeyMove == \E i \in CaretPositions(edit.text) : EditStep("move", on_key_move(edit, i))
SelectAll == EditStep("move", select_all(edit))
ImeDisabled == EditStep("clear", on_ime_disabled(edit))
ImeCommit == \E t \in Preedits : EditStep("commit", on_ime_commit(edit, t))
ImePreeditEmpty == EditStep("clear", on_ime_preedit(edit, <<>>, None))
ImePreedit == \E t \in Preedits, c \in {None, Some(<<0, 0>>), Some(<<0, 1>>)} :
                  EditStep("preedit", on_ime_preedit(edit, t, c))
SetText == \E t \in SetTexts : EditStep("api", set_text(edit, t))
SetPlaceholder == \E t \in Placeholders : EditStep("api", set_placeholder(edit, t))
SetSingleLine == \E b \in BOOLEAN : EditStep("api", set_single_line(edit, b))
SetNewlineMode == \E mode \in NewlineModes : EditStep("api", set_newline_mode(edit, mode))
SetDisabled == \E b \in BOOLEAN : EditStep("api", set_disabled(edit, b))
SetEditHidden == \E b \in BOOLEAN : EditStep("api", set_hidden(edit, b))

\* The same events in the typing scenarios, which keep longer buffers, move
\* the caret to the end of the text only, and end with undos: no edit
\* follows an undo.
TypingStep(kind, e2, max) ==
    /\ ~edit.panicked
    /\ ObsPhase(kind, edit, e2) # "void"
    /\ Len(e2.text) <= max
    /\ Len(e2.history.history) <= MaxHist
    /\ Len(e2.history.undo_text) <= max
    /\ Len(e2.history.redo_text) <= max
    /\ edit' = e2
    /\ obs' = Observe(kind, edit, e2)
    /\ UNCHANGED regVars

TypeCharacter ==
    \E c \in TypedChars : TypingStep("edit", on_key_character(edit, <<c>>), MaxTyped)
TypeSpace == TypingStep("edit", on_key_character(edit, <<"SP">>), MaxTyped)
TypeBackspace == TypingStep("edit", on_key_backspace(edit), MaxTyped)
TypeUndo == TypingStep("undo", on_key_undo(edit), MaxTyped)
TypeEnd == TypingStep("move", on_key_move(edit, Len(edit.text)), MaxTyped)

\* The forward-deletion scenarios: the caret is placed, then the Delete key
\* is pressed, then undo.
DeleteRunMove ==
    /\ obs.phase = "fresh"
    /\ \E i \in CaretPositions(edit.text) :
           TypingStep("move", on_key_move(edit, i), MaxDeleted)
DeleteRunDelete == TypingStep("edit", on_key_delete(edit), MaxDeleted)
DeleteRunUndo == TypingStep("undo", on_key_undo(edit), MaxDeleted)

\* The events and calls of the paste scenarios.
PasteStep(kind, e2) ==
    /\ ~edit.panicked
    /\ Len(e2.text) <= MaxPaste
    /\ Len(e2.history.history) <= MaxHist
    /\ Len(e2.history.undo_text) <= MaxPaste
    /\ Len(e2.history.redo_text) <= MaxPaste
    /\ edit' = e2
    /\ obs' = Observe(kind, edit, e2)
    /\ UNCHANGED regVars

PasteClip == \E clip \in PasteClips : PasteStep("edit", on_key_paste(edit, clip))
PasteSingleLine == \E b \in BOOLEAN : PasteStep("api", set_single_line(edit, b))
PasteSelectAll == PasteStep("move", select_all(edit))
PasteUndo == PasteStep("undo", on_key_undo(edit))

\* The same in the long runs of one character.
LongCharacter ==
    \E c \in TypedChars : TypingStep("edit", on_key_character(edit, <<c>>), MaxLong)
LongBackspace == TypingStep("edit", on_key_backspace(edit), MaxLong)
LongUndo == TypingStep("undo", on_key_undo(edit), MaxLong)

----------------------------------------------------------------------------
(* The slot allocator (slab::Slab): entry k holds Some(value) when occupied *)
(* and, when vacant, the key of the next free entry; `next` is the key the  *)
(* next insert uses.  Keys are 0-based.                                     *)

Occupied(w) == [val |-> Some(w), next |-> 0]
Vacant(n) == [val |-> None, next |-> n]
NewSlab == [entries |-> <<>>, next |-> 0]

\* Slab::contains / Slab::get(key).is_some()
SlabContains(s, key) == 0 <= key /\ key < Len(s.entries) /\ s.entries[key + 1].val # None
\* Slab::index, for an occupied key
SlabGet(s, key) == Unwrap(s.entries[key + 1].val)
SlabSet(s, key, w) == [s EXCEPT !.entries[key + 1] = Occupied(w)]
\* Slab::insert; the key it returns is s.next.
SlabInsert(s, w) ==
    IF s.next = Len(s.entries)
    THEN [entries |-> Append(s.entries, Occupied(w)), next |-> s.next + 1]
    ELSE [entries |-> [s.entries EXCEPT ![s.next + 1] = Occupied(w)],
          next |-> s.entries[s.next + 1].next]
\* Slab::remove, for an occupied key
SlabRemove(s, key) ==
    [entries |-> [s.entries EXCEPT ![key + 1] = Vacant(s.next)], next |-> key]
\* The occupied keys, in iteration order.
SlabKeys(s) == {k \in 0..(Len(s.entries) - 1) : SlabContains(s, k)}
\* Slab::retain: the keys are visited in increasing order and each occupied
\* entry whose key is not in keep is removed.
RECURSIVE SlabRetainFrom(_, _, _)
SlabRetainFrom(s, keep, key) ==
    IF key >= Len(s.entries) THEN s
    ELSE IF SlabContains(s, key) /\ key \notin keep
         THEN SlabRetainFrom(SlabRemove(s, key), keep, key + 1)
         ELSE SlabRetainFrom(s, keep, key + 1)
SlabRetain(s, keep) == SlabRetainFrom(s, keep, 0)

----------------------------------------------------------------------------
(* Text: the registry of text boxes and text edits. *)

MULTICLICK_DELAY == 4             \* 0.4 s, in tenths of a second
MULTICLICK_TOLERANCE_SQUARED == 26
F32_MAX == 1000                   \* f32::MAX

TextEditBox(i) == [kind |-> "TextEdit", i |-> i]
TextBoxBox(i) == [kind |-> "TextBox", i |-> i]

\* A widget as the registry sees it: its visibility fields, its depth, the
\* cursor positions its rectangle covers, whether its selection holds text,
\* and the identity of the record.
NewWidget(id, placement, frame) ==
    [id |-> id, last_frame_touched |-> frame, can_hide |-> FALSE, hidden |-> FALSE,
     depth |-> placement.depth, area |-> placement.area, show_cursor |-> TRUE,
     selected |-> FALSE, disabled |-> FALSE]

\* hit_full_rect / hit_bounding_box
hit_full_rect(w, cursor_pos) == cursor_pos \in w.area
hit_bounding_box(w, cursor_pos) == cursor_pos \in w.area

\* TextBox::reset_selection: the selection collapses.
reset_selection(w) == [w EXCEPT !.selected = FALSE]

\* MouseState::new
NewMouseState == [cursor_pos |-> <<0, 0>>, last_click_info |-> None, click_count |-> 0]

\* Text::new
NewText ==
    [text_boxes |-> NewSlab, text_edits |-> NewSlab, focused |-> None,
     current_frame |-> 1, mouse |-> NewMouseState, text_changed |-> TRUE,
     decorations_changed |-> TRUE, using_frame_based_visibility |-> FALSE,
     crashed |-> FALSE]

\* A registry call that panics (an index into a vacant slot).
Crash(r) == [r EXCEPT !.crashed = TRUE]

\* Whether an AnyBox names an occupied slot of its kind, and the widget there.
BoxSlab(r, b) == IF b.kind = "TextEdit" THEN r.text_edits ELSE r.text_boxes
BoxExists(r, b) == SlabContains(BoxSlab(r, b), b.i)
BoxWidget(r, b) == SlabGet(BoxSlab(r, b), b.i)

\* An add_text_box that leaves text_changed as it was.
AddTextBoxKeepsFlag(r, id, placement) ==
    [r EXCEPT !.text_boxes = SlabInsert(@, NewWidget(id, placement, r.current_frame))]

\* Text::add_text_box; the handle it returns carries the key text_boxes.next.
add_text_box(r, id, placement) ==
    [r EXCEPT !.text_boxes = SlabInsert(@, NewWidget(id, placement, r.current_frame)),
              !.text_changed = TRUE]

\* Text::add_text_edit
add_text_edit(r, id, placement) ==
    [r EXCEPT !.text_edits = SlabInsert(@, NewWidget(id, placement, r.current_frame)),
              !.text_changed = TRUE]

\* Text::advance_frame_and_hide_boxes
advance_frame_and_hide_boxes(r) ==
    [r EXCEPT !.current_frame = @ + 1, !.using_frame_based_visibility = TRUE]

\* The renderer, as far as prepare_all drives it: the widgets whose text it
\* holds, and what the last prepare_all cleared ("all" for clear, "decorations"
\* for clear_decorations_only, "none").
NewTextRenderer == [drawn |-> {}, cleared |-> "none"]

\* The widgets of either slab, with their kind and key.
Widgets(r) ==
    {[kind |-> "TextBox", i |-> k, w |-> SlabGet(r.text_boxes, k)] : k \in SlabKeys(r.text_boxes)}
        \cup
    {[kind |-> "TextEdit", i |-> k, w |-> SlabGet(r.text_edits, k)] : k \in SlabKeys(r.text_edits)}

\* A prepare_all that does not look for widgets that were just hidden.
PrepareAllSkipsScan(r, text_renderer) ==
    LET shown == {x.w.id : x \in {y \in Widgets(r) :
                      ~y.w.hidden /\ y.w.last_frame_touched = r.current_frame}}
        tr == IF r.text_changed THEN [drawn |-> shown, cleared |-> "all"]
              ELSE IF r.decorations_changed
                   THEN [text_renderer EXCEPT !.cleared = "decorations"]
                   ELSE [text_renderer EXCEPT !.cleared = "none"]
    IN [text |-> [r EXCEPT !.text_changed = FALSE, !.decorations_changed = FALSE,
                           !.using_frame_based_visibility = FALSE],
        text_renderer |-> tr]

\* A prepare_all that clears the renderer only when decorations changed too.
PrepareAllClearsLess(r, text_renderer) ==
    LET promoted == r.text_changed /\ r.decorations_changed
        shown == {x.w.id : x \in {y \in Widgets(r) :
                      ~y.w.hidden /\ y.w.last_frame_touched = r.current_frame}}
        tr == IF promoted THEN [drawn |-> shown, cleared |-> "all"]
              ELSE IF r.decorations_changed
                   THEN [text_renderer EXCEPT !.cleared = "decorations"]
                   ELSE [text_renderer EXCEPT !.cleared = "none"]
    IN [text |-> [r EXCEPT !.text_changed = FALSE, !.decorations_changed = FALSE,
                           !.using_frame_based_visibility = FALSE],
        text_renderer |-> tr]

\* Text::prepare_all.  The result is the registry and the renderer after it.
\* The index of the focused widget at lines 471-482 panics on a vacant slot.
prepare_all(r, text_renderer) ==
    LET just_hidden == \E x \in Widgets(r) :
                           x.w.last_frame_touched = r.current_frame - 1
        promoted == \/ r.text_changed
                    \/ ~r.text_changed /\ r.using_frame_based_visibility /\ just_hidden
        shown == {x.w.id : x \in {y \in Widgets(r) :
                      ~y.w.hidden /\ y.w.last_frame_touched = r.current_frame}}
        tr == IF promoted THEN [drawn |-> shown, cleared |-> "all"]
              ELSE IF r.decorations_changed
                   THEN [text_renderer EXCEPT !.cleared = "decorations"]
                   ELSE [text_renderer EXCEPT !.cleared = "none"]
    IN IF (r.decorations_changed \/ promoted) /\ r.focused # None
          /\ ~BoxExists(r, Unwrap(r.focused))
       THEN [text |-> Crash([r EXCEPT !.text_changed = promoted]),
             text_renderer |-> tr]
       ELSE [text |-> [r EXCEPT !.text_changed = FALSE, !.decorations_changed = FALSE,
                                !.using_frame_based_visibility = FALSE],
             text_renderer |-> tr]

\* A refresh that indexes the slab as the other accessors do.
RefreshTextBoxIndexes(r, i) ==
    IF SlabContains(r.text_boxes, i)
    THEN [r EXCEPT !.text_boxes = SlabSet(@, i, [SlabGet(@, i) EXCEPT
                                      !.last_frame_touched = r.current_frame])]
    ELSE Crash(r)

\* Text::refresh_text_box
refresh_text_box(r, i) ==
    IF SlabContains(r.text_boxes, i)
    THEN [r EXCEPT !.text_boxes = SlabSet(@, i, [SlabGet(@, i) EXCEPT
                                      !.last_frame_touched = r.current_frame])]
    ELSE r

\* Text::refresh_text_edit
refresh_text_edit(r, i) ==
    IF SlabContains(r.text_edits, i)
    THEN [r EXCEPT !.text_edits = SlabSet(@, i, [SlabGet(@, i) EXCEPT
                                      !.last_frame_touched = r.current_frame])]
    ELSE r

\* The closure of the two retain calls of remove_old_nodes.
RetainedTouchedOnly(w, frame) == w.last_frame_touched = frame
retained(w, frame) == w.last_frame_touched = frame \/ w.can_hide

\* Text::remove_old_nodes
remove_old_nodes(r) ==
    LET should_clear_focus ==
            /\ r.focused # None
            /\ IF BoxExists(r, Unwrap(r.focused))
               THEN LET w == BoxWidget(r, Unwrap(r.focused)) IN
                    w.last_frame_touched # r.current_frame /\ ~w.can_hide
               ELSE TRUE
        keep(s) == {k \in SlabKeys(s) : retained(SlabGet(s, k), r.current_frame)}
    IN [r EXCEPT !.focused = IF should_clear_focus THEN None ELSE @,
                 !.text_boxes = SlabRetain(@, keep(@)),
                 !.text_edits = SlabRetain(@, keep(@))]

\* Text::remove_text_box
RemoveTextBoxKeepsFocus(r, i) ==
    IF ~SlabContains(r.text_boxes, i) THEN Crash([r EXCEPT !.text_changed = TRUE])
    ELSE [r EXCEPT !.text_changed = TRUE, !.text_boxes = SlabRemove(@, i)]
remove_text_box(r, i) ==
    LET r1 == [r EXCEPT !.text_changed = TRUE,
                        !.focused = IF @ = Some(TextBoxBox(i)) THEN None ELSE @]
    IN IF ~SlabContains(r.text_boxes, i) THEN Crash(r1)
       ELSE [r1 EXCEPT !.text_boxes = SlabRemove(@, i)]

\* Text::remove_text_edit
RemoveTextEditFirstSlot(r, i) ==
    LET r1 == [r EXCEPT !.text_changed = TRUE,
                        !.focused = IF @ = Some(TextEditBox(i)) THEN None ELSE @]
    IN IF ~SlabContains(r.text_edits, 0) THEN Crash(r1)
       ELSE [r1 EXCEPT !.text_edits = SlabRemove(@, 0)]
remove_text_edit(r, i) ==
    LET r1 == [r EXCEPT !.text_changed = TRUE,
                        !.focused = IF @ = Some(TextEditBox(i)) THEN None ELSE @]
    IN IF ~SlabContains(r.text_edits, i) THEN Crash(r1)
       ELSE [r1 EXCEPT !.text_edits = SlabRemove(@, i)]

\* get_text_box_mut(handle).set_hidden(hidden) and .set_can_hide(can_hide)
set_text_box_hidden(r, i, hidden) ==
    IF ~SlabContains(r.text_boxes, i) THEN Crash([r EXCEPT !.text_changed = TRUE])
    ELSE [r EXCEPT !.text_changed = TRUE,
                   !.text_boxes = SlabSet(@, i, [SlabGet(@, i) EXCEPT !.hidden = hidden])]
set_text_box_can_hide(r, i, can_hide) ==
    IF ~SlabContains(r.text_boxes, i) THEN Crash([r EXCEPT !.text_changed = TRUE])
    ELSE [r EXCEPT !.text_changed = TRUE,
                   !.text_boxes = SlabSet(@, i, [SlabGet(@, i) EXCEPT !.can_hide = can_hide])]

\* get_text_edit_mut(handle).set_hidden(hidden) and .set_can_hide(can_hide)
set_text_edit_hidden(r, i, hidden) ==
    IF ~SlabContains(r.text_edits, i) THEN Crash([r EXCEPT !.text_changed = TRUE])
    ELSE [r EXCEPT !.text_changed = TRUE,
                   !.text_edits = SlabSet(@, i, [SlabGet(@, i) EXCEPT !.hidden = hidden])]
set_text_edit_can_hide(r, i, can_hide) ==
    IF ~SlabContains(r.text_edits, i) THEN Crash([r EXCEPT !.text_changed = TRUE])
    ELSE [r EXCEPT !.text_changed = TRUE,
                   !.text_edits = SlabSet(@, i, [SlabGet(@, i) EXCEPT !.can_hide = can_hide])]

\* A set_text_edit_disabled that takes the focus from whichever edit has it.
SetTextEditDisabledAnyEdit(r, i, disabled) ==
    IF ~SlabContains(r.text_edits, i) THEN Crash([r EXCEPT !.text_changed = TRUE])
    ELSE LET r1 == [r EXCEPT !.text_changed = TRUE,
                             !.text_edits = SlabSet(@, i, [SlabGet(@, i) EXCEPT
                                                              !.disabled = disabled])]
         IN IF disabled /\ r1.focused # None /\ Unwrap(r1.focused).kind = "TextEdit"
            THEN [r1 EXCEPT !.text_edits = SlabSet(@, i, reset_selection(SlabGet(@, i))),
                            !.focused = None]
            ELSE r1
\* Text::set_text_edit_disabled
set_text_edit_disabled(r, i, disabled) ==
    IF ~SlabContains(r.text_edits, i) THEN Crash([r EXCEPT !.text_changed = TRUE])
    ELSE LET r1 == [r EXCEPT !.text_changed = TRUE,
                             !.text_edits = SlabSet(@, i, [SlabGet(@, i) EXCEPT
                                                              !.disabled = disabled])]
         IN IF disabled /\ r1.focused = Some(TextEditBox(i))
            THEN [r1 EXCEPT !.text_edits = SlabSet(@, i, reset_selection(SlabGet(@, i))),
                            !.focused = None]
            ELSE r1

----------------------------------------------------------------------------
(* Text::handle_event and what it calls.  An event is a record with a type: *)
(* "CursorMoved" with a position, "LeftPress", "Keyboard", "Resized", and   *)
(* "Ime", "MouseWheel", "Touch", "LeftRelease", "RightPress", which the     *)
(* registry only hands to the focused widget.                               *)

\* The widgets of one slab that the press at cursor_pos hits, in key order.
HitsOf(s, kind, frame, cursor_pos) ==
    LET hit(k) == /\ SlabContains(s, k)
                  /\ ~SlabGet(s, k).hidden
                  /\ SlabGet(s, k).last_frame_touched = frame
                  /\ IF kind = "TextEdit" THEN hit_full_rect(SlabGet(s, k), cursor_pos)
                     ELSE hit_bounding_box(SlabGet(s, k), cursor_pos)
        keys == SelectSeq([j \in 1..Len(s.entries) |-> j - 1], hit)
    IN [j \in 1..Len(keys) |-> <<[kind |-> kind, i |-> keys[j]], SlabGet(s, keys[j]).depth>>]

\* The loop over mouse_hit_stack (lines 596-603).
RECURSIVE TopmostOf(_, _, _)
TopmostOf(stack, top_z, topmost) ==
    IF stack = <<>> THEN topmost
    ELSE IF Head(stack)[2] < top_z
         THEN TopmostOf(Tail(stack), Head(stack)[2], Some(Head(stack)[1]))
         ELSE TopmostOf(Tail(stack), top_z, topmost)

\* Text::find_topmost_at_pos
find_topmost_at_pos(r, cursor_pos) ==
    TopmostOf(HitsOf(r.text_edits, "TextEdit", r.current_frame, cursor_pos)
                  \o HitsOf(r.text_boxes, "TextBox", r.current_frame, cursor_pos),
              F32_MAX, None)

\* Text::remove_focus
remove_focus(r, old_focus) ==
    IF ~BoxExists(r, old_focus) THEN Crash(r)
    ELSE IF old_focus.kind = "TextEdit"
    THEN [r EXCEPT !.text_edits =
              SlabSet(@, old_focus.i,
                      [reset_selection(SlabGet(@, old_focus.i)) EXCEPT !.show_cursor = FALSE])]
    ELSE [r EXCEPT !.text_boxes =
              SlabSet(@, old_focus.i, reset_selection(SlabGet(@, old_focus.i)))]

\* A refocus that leaves the widget losing the focus as it was.
RefocusSkipsOld(r, new_focus) ==
    [r EXCEPT !.focused = new_focus, !.decorations_changed = TRUE]

\* Text::refocus
refocus(r, new_focus) ==
    LET r1 == IF new_focus # r.focused /\ r.focused # None
              THEN remove_focus(r, Unwrap(r.focused))
              ELSE r
    IN [r1 EXCEPT !.focused = new_focus, !.decorations_changed = TRUE]

DistanceSquared(p, q) == (p[1] - q[1]) * (p[1] - q[1]) + (p[2] - q[2]) * (p[2] - q[2])

\* Text::handle_click_counting; t is what Instant::now() returns.
ClickCountingAnyDistance(r, t) ==
    LET last == r.mouse.last_click_info
        count == IF last # None /\ t - Unwrap(last).time < MULTICLICK_DELAY
                    /\ Unwrap(last).focused = r.focused
                 THEN (r.mouse.click_count + 1) % 4
                 ELSE 1
    IN [r EXCEPT !.mouse.click_count = count,
                 !.mouse.last_click_info =
                     Some([time |-> t, pos |-> r.mouse.cursor_pos, focused |-> r.focused])]
\* The count as the prose states it: 1, 2, 3, then 1 again.
ClickCountingWrapsToOne(r, t) ==
    LET last == r.mouse.last_click_info
        count == IF last # None /\ t - Unwrap(last).time < MULTICLICK_DELAY
                    /\ Unwrap(last).focused = r.focused
                    /\ DistanceSquared(r.mouse.cursor_pos, Unwrap(last).pos)
                           <= MULTICLICK_TOLERANCE_SQUARED
                    /\ r.mouse.click_count < 3
                 THEN r.mouse.click_count + 1
                 ELSE 1
    IN [r EXCEPT !.mouse.click_count = count,
                 !.mouse.last_click_info =
                     Some([time |-> t, pos |-> r.mouse.cursor_pos, focused |-> r.focused])]
handle_click_counting(r, t) ==
    LET last == r.mouse.last_click_info
        count ==
            IF last # None
            THEN IF t - Unwrap(last).time < MULTICLICK_DELAY
                    /\ Unwrap(last).focused = r.focused
                 THEN IF DistanceSquared(r.mouse.cursor_pos, Unwrap(last).pos)
                             <= MULTICLICK_TOLERANCE_SQUARED
                      THEN (r.mouse.click_count + 1) % 4
                      ELSE 1
                 ELSE 1
            ELSE 1
    IN [r EXCEPT !.mouse.click_count = count,
                 !.mouse.last_click_info =
                     Some([time |-> t, pos |-> r.mouse.cursor_pos, focused |-> r.focused])]

\* TextInputState::handle_event
input_state_handle_event(r, event) ==
    IF event.type = "CursorMoved" THEN [r EXCEPT !.mouse.cursor_pos = event.pos] ELSE r

\* Text::handle_focused_event and the scroll update after it; result is the
\* TextEventResult of the widget's handler, with what
\* update_scroll_after_layout returns in result.scrolled.
handle_focused_event(r, result) ==
    IF ~BoxExists(r, Unwrap(r.focused)) THEN Crash(r)
    ELSE [r EXCEPT !.text_changed = @ \/ result.text_changed
                                      \/ (Unwrap(r.focused).kind = "TextEdit"
                                          /\ result.scrolled),
                   !.decorations_changed = @ \/ result.decorations_changed]

\* The part of handle_event and handle_event_with_topmost after the focus
\* election (lines 512-523 and 567-577).
route_to_focused(r, result) ==
    IF r.crashed \/ r.focused = None THEN r ELSE handle_focused_event(r, result)

\* Text::handle_event
handle_event(r, event, t, result) ==
    LET r1 == input_state_handle_event(r, event)
        r2 == IF event.type = "Resized" THEN [r1 EXCEPT !.text_changed = TRUE] ELSE r1
        r3 == IF event.type = "LeftPress"
              THEN LET f == refocus(r2, find_topmost_at_pos(r2, r2.mouse.cursor_pos))
                   IN IF f.crashed THEN f ELSE handle_click_counting(f, t)
              ELSE r2
    IN route_to_focused(r3, result)

\* Text::handle_event_with_topmost
handle_event_with_topmost(r, event, t, result, topmost_text_box) ==
    LET r1 == input_state_handle_event(r, event)
        r3 == IF event.type = "LeftPress"
              THEN LET f == refocus(r1, topmost_text_box)
                   IN IF f.crashed THEN f ELSE handle_click_counting(f, t)
              ELSE r1
    IN route_to_focused(r3, result)

----------------------------------------------------------------------------
(* The inputs and bounds of the registry model. *)

\* The most entries a slab grows to, per kind.
MaxSlots == 2
\* The most widgets ever added.
MaxAdds == 2
\* The last frame advance_frame_and_hide_boxes may reach.
MaxFrame == 2
\* The last instant of the clock, in tenths of a second.
MaxTime == 6
\* The longest run of qualifying presses that is followed.
MaxRun == 5

\* Cursor positions: (5,1) is at squared distance 26 of (0,0), (6,0) at 36.
Positions == {<<0, 0>>, <<5, 1>>, <<6, 0>>}
\* Where a widget is put: the positions its rectangle covers, and its depth.
Front == [area |-> {<<0, 0>>, <<5, 1>>}, depth |-> 1]
Back == [area |-> {<<5, 1>>, <<6, 0>>}, depth |-> 2]
Placements == {Front, Back}
\* A widget at the greatest depth an f32 holds.
Far == [area |-> {<<0, 0>>, <<6, 0>>}, depth |-> F32_MAX]
\* What the focused widget's event handler may report: nothing, or a change
\* of text, decorations and scroll.
EventResults == {[text_changed |-> b, decorations_changed |-> b, scrolled |-> b] :
                     b \in BOOLEAN}

----------------------------------------------------------------------------
(* The observer of the registry.  It reads the registry, never writes it.   *)
(*   last     the kind of the last call: "new", "api", "get_mut", "sweep",  *)
(*            "refresh", "disable", "prepare", "event", "press" or "tick"   *)
(*   next_id  the identity the next added widget gets                       *)
(*   kill     "just" right after a call that destroyed the focused widget,  *)
(*            "pending" until the next left press, "clicked" right after    *)
(*            that press, "none" otherwise                                  *)
(*   before   right after remove_old_nodes: the widgets there were before   *)
(*   hit      right after a left press: the widget that alone was topmost   *)
(*            under the cursor, if the press was delivered to one           *)
(*   prev     the previous left press: its time, position, the value of     *)
(*            `focused` after it and the identity of the focused widget     *)
(*   run      the presses in a row, each less than MULTICLICK_DELAY after   *)
(*            and within MULTICLICK_TOLERANCE_SQUARED of the one before,    *)
(*            with the same value of `focused`                              *)
(*   run_id   the same, with the same focused widget (by identity)          *)
(*   flags    right after prepare_all: text_changed, decorations_changed    *)
(*            and using_frame_based_visibility as they were before it       *)
(***************************************************************************)

NewRegObs ==
    [last |-> "new", next_id |-> 1, kill |-> "none", before |-> {}, hit |-> None,
     prev |-> None, run |-> 0, run_id |-> 0, flags |-> None]

\* The registry as one record, and the assignment of one to the variables.
Reg ==
    [text_boxes |-> text_boxes, text_edits |-> text_edits, focused |-> focused,
     current_frame |-> current_frame, mouse |-> mouse, text_changed |-> text_changed,
     decorations_changed |-> decorations_changed,
     using_frame_based_visibility |-> using_frame_based_visibility, crashed |-> crashed]

SetReg(r) ==
    /\ text_boxes' = r.text_boxes
    /\ text_edits' = r.text_edits
    /\ focused' = r.focused
    /\ current_frame' = r.current_frame
    /\ mouse' = r.mouse
    /\ text_changed' = r.text_changed
    /\ decorations_changed' = r.decorations_changed
    /\ using_frame_based_visibility' = r.using_frame_based_visibility
    /\ crashed' = r.crashed

\* Every widget of the registry, with its kind and key.
AllWidgets(r) == Widgets(r)

WidgetIds(r) == {x.w.id : x \in AllWidgets(r)}

\* The identity of the focused widget; 0 when there is none.
FocusedId(r) ==
    IF r.focused # None /\ BoxExists(r, Unwrap(r.focused))
    THEN BoxWidget(r, Unwrap(r.focused)).id
    ELSE 0

\* The widget that is under the cursor, visible, and nearer than every other
\* such widget.
UniqueTopmost(r, cursor_pos) ==
    LET under == {x \in AllWidgets(r) : /\ ~x.w.hidden
                                        /\ x.w.last_frame_touched = r.current_frame
                                        /\ cursor_pos \in x.w.area}
        top == {x \in under : \A y \in under \ {x} : x.w.depth < y.w.depth}
    IN IF top = {} THEN None
       ELSE LET x == CHOOSE x \in top : TRUE IN Some([kind |-> x.kind, i |-> x.i])

\* The call from r to r2 destroyed the widget that had the focus.
KilledFocus(r, r2) == FocusedId(r) # 0 /\ FocusedId(r) \notin WidgetIds(r2)

ObsKill(kind, r, r2) ==
    IF KilledFocus(r, r2) THEN "just"
    ELSE IF kind = "press" THEN (IF reg.kill \in {"just", "pending"} THEN "clicked" ELSE "none")
    ELSE IF reg.kill \in {"just", "pending"} THEN "pending"
    ELSE "none"

\* The observer after a call of the given kind that is not a left press.
RegObserve(kind, r, r2) ==
    [reg EXCEPT !.last = kind, !.kill = ObsKill(kind, r, r2),
                !.before = IF kind = "sweep" THEN AllWidgets(r) ELSE {},
                !.hit = None,
                !.flags = IF kind = "prepare"
                          THEN Some([text_changed |-> r.text_changed,
                                     decorations_changed |-> r.decorations_changed,
                                     using_frame_based_visibility |->
                                         r.using_frame_based_visibility])
                          ELSE None]

\* The observer after a left press at time t; hit is the widget pressed.
RegObservePress(r, r2, t, hit) ==
    LET near == /\ reg.prev # None
                /\ t - Unwrap(reg.prev).time < MULTICLICK_DELAY
                /\ DistanceSquared(r2.mouse.cursor_pos, Unwrap(reg.prev).pos)
                       <= MULTICLICK_TOLERANCE_SQUARED
    IN [reg EXCEPT !.last = "press", !.kill = ObsKill("press", r, r2), !.before = {},
                   !.hit = hit, !.flags = None,
                   !.prev = Some([time |-> t, pos |-> r2.mouse.cursor_pos,
                                  focused |-> r2.focused, id |-> FocusedId(r2)]),
                   !.run = IF near /\ Unwrap(reg.prev).focused = r2.focused
                           THEN @ + 1 ELSE 1,
                   !.run_id = IF near /\ Unwrap(reg.prev).id = FocusedId(r2)
                              THEN @ + 1 ELSE 1]

----------------------------------------------------------------------------
(* The actions of the registry model: one per API call or kind of event. *)

RegStep(r2, hs, g) ==
    /\ ~crashed
    /\ SetReg(r2)
    /\ handles' = hs
    /\ reg' = g
    /\ UNCHANGED <<edit, obs, now, styleVars, renderer>>

Handle(kind, i, id) == [kind |-> kind, i |-> i, id |-> id]

AddTextBox(placement) ==
    /\ reg.next_id <= MaxAdds
    /\ text_boxes.next < MaxSlots
    /\ LET r2 == add_text_box(Reg, reg.next_id, placement) IN
       RegStep(r2, handles \cup {Handle("TextBox", text_boxes.next, reg.next_id)},
               [RegObserve("api", Reg, r2) EXCEPT !.next_id = @ + 1])

AddTextEdit(placement) ==
    /\ reg.next_id <= MaxAdds
    /\ text_edits.next < MaxSlots
    /\ LET r2 == add_text_edit(Reg, reg.next_id, placement) IN
       RegStep(r2, handles \cup {Handle("TextEdit", text_edits.next, reg.next_id)},
               [RegObserve("api", Reg, r2) EXCEPT !.next_id = @ + 1])

RemoveTextBox ==
    \E h \in handles :
        /\ h.kind = "TextBox"
        /\ LET r2 == remove_text_box(Reg, h.i) IN
           RegStep(r2, handles \ {h}, RegObserve("api", Reg, r2))

RemoveTextEdit ==
    \E h \in handles :
        /\ h.kind = "TextEdit"
        /\ LET r2 == remove_text_edit(Reg, h.i) IN
           RegStep(r2, handles \ {h}, RegObserve("api", Reg, r2))

RefreshTextBox ==
    \E h \in handles :
        /\ h.kind = "TextBox"
        /\ LET r2 == refresh_text_box(Reg, h.i) IN
           RegStep(r2, handles, RegObserve("api", Reg, r2))

RefreshTextEdit ==
    \E h \in handles :
        /\ h.kind = "TextEdit"
        /\ LET r2 == refresh_text_edit(Reg, h.i) IN
           RegStep(r2, handles, RegObserve("api", Reg, r2))

AdvanceFrame ==
    /\ current_frame < MaxFrame
    /\ LET r2 == advance_frame_and_hide_boxes(Reg) IN
       RegStep(r2, handles, RegObserve("api", Reg, r2))

\* The host drops the handles of the widgets the sweep destroyed.
RemoveOldNodes ==
    LET r2 == remove_old_nodes(Reg) IN
    RegStep(r2, {h \in handles : h.id \in WidgetIds(r2)}, RegObserve("sweep", Reg, r2))

SetHidden ==
    \E h \in handles, hidden \in BOOLEAN :
        LET r2 == IF h.kind = "TextBox" THEN set_text_box_hidden(Reg, h.i, hidden)
                  ELSE set_text_edit_hidden(Reg, h.i, hidden)
        IN RegStep(r2, handles, RegObserve("get_mut", Reg, r2))

SetCanHide ==
    \E h \in handles, can_hide \in BOOLEAN :
        LET r2 == IF h.kind = "TextBox" THEN set_text_box_can_hide(Reg, h.i, can_hide)
                  ELSE set_text_edit_can_hide(Reg, h.i, can_hide)
        IN RegStep(r2, handles, RegObserve("get_mut", Reg, r2))

CursorMoved(pos) ==
    \E result \in EventResults :
        LET r2 == handle_event(Reg, [type |-> "CursorMoved", pos |-> pos], now, result)
        IN RegStep(r2, handles, RegObserve("event", Reg, r2))

KeyboardInput ==
    \E result \in EventResults :
        LET r2 == handle_event(Reg, [type |-> "Keyboard"], now, result)
        IN RegStep(r2, handles, RegObserve("event", Reg, r2))

\* A key that makes the focused widget's handler select text (Ctrl+A,
\* Shift+arrow): the handler reports changed decorations.
FocusedSelects ==
    /\ focused # None
    /\ BoxExists(Reg, Unwrap(focused))
    /\ LET r1 == handle_event(Reg, [type |-> "Keyboard"], now,
                              [text_changed |-> FALSE, decorations_changed |-> TRUE,
                               scrolled |-> FALSE])
           b == Unwrap(focused)
           w == [BoxWidget(r1, b) EXCEPT !.selected = TRUE]
           r2 == IF b.kind = "TextEdit"
                 THEN [r1 EXCEPT !.text_edits = SlabSet(@, b.i, w)]
                 ELSE [r1 EXCEPT !.text_boxes = SlabSet(@, b.i, w)]
       IN RegStep(r2, handles, RegObserve("event", Reg, r2))

MousePress ==
    \E result \in EventResults :
        LET r2 == handle_event(Reg, [type |-> "LeftPress"], now, result)
            g == RegObservePress(Reg, r2, now, UniqueTopmost(Reg, mouse.cursor_pos))
        IN g.run <= MaxRun /\ g.run_id <= MaxRun /\ RegStep(r2, handles, g)

\* The host passes what find_topmost_text_box returned, or None when
\* another object occludes the widget.
MousePressWithTopmost ==
    \E result \in EventResults,
       topmost \in {find_topmost_at_pos(Reg, mouse.cursor_pos), None} :
        LET r2 == handle_event_with_topmost(Reg, [type |-> "LeftPress"], now, result,
                                            topmost)
            g == RegObservePress(Reg, r2, now,
                                 IF topmost = None THEN None
                                 ELSE UniqueTopmost(Reg, mouse.cursor_pos))
        IN g.run <= MaxRun /\ g.run_id <= MaxRun /\ RegStep(r2, handles, g)

\* The host keeps its handles over a sweep and refreshes through them.
SweepHeld ==
    LET r2 == remove_old_nodes(Reg) IN RegStep(r2, handles, RegObserve("sweep", Reg, r2))

RefreshHeld ==
    \E h \in handles :
        LET r2 == IF h.kind = "TextBox" THEN refresh_text_box(Reg, h.i)
                  ELSE refresh_text_edit(Reg, h.i)
        IN RegStep(r2, handles, RegObserve("refresh", Reg, r2))

PrepareAll ==
    LET p == prepare_all(Reg, renderer) IN
    /\ ~crashed
    /\ SetReg(p.text)
    /\ renderer' = p.text_renderer
    /\ reg' = RegObserve("prepare", Reg, p.text)
    /\ UNCHANGED <<edit, obs, now, handles, styleVars>>

\* The events that are not a pressed left button.
OtherEvents ==
    {[type |-> t] : t \in {"Keyboard", "Resized", "Ime", "MouseWheel", "Touch",
                           "LeftRelease", "RightPress"}}
        \cup {[type |-> "CursorMoved", pos |-> pos] : pos \in {<<0, 0>>, <<5, 1>>}}

Resized ==
    \E result \in EventResults :
        LET r2 == handle_event(Reg, [type |-> "Resized"], now, result)
        IN RegStep(r2, handles, RegObserve("event", Reg, r2))

\* An event that is not a press, through handle_event.
OtherEvent ==
    \E result \in EventResults, event \in OtherEvents :
        LET r2 == handle_event(Reg, event, now, result)
        IN RegStep(r2, handles, RegObserve("event", Reg, r2))

SetTextEditDisabled ==
    \E h \in handles, disabled \in BOOLEAN :
        /\ h.kind = "TextEdit"
        /\ LET r2 == set_text_edit_disabled(Reg, h.i, disabled) IN
           RegStep(r2, handles, RegObserve("disable", Reg, r2))

\* An event that is not a press, through the occlusion entry point.
EventWithTopmost ==
    \E result \in EventResults, event \in OtherEvents,
       topmost \in {find_topmost_at_pos(Reg, mouse.cursor_pos), None} :
        LET r2 == handle_event_with_topmost(Reg, event, now, result, topmost)
        IN RegStep(r2, handles, RegObserve("event", Reg, r2))

\* Two tenths of a second pass.
Tick ==
    /\ ~crashed
    /\ now + 2 <= MaxTime
    /\ now' = now + 2
    /\ reg' = RegObserve("tick", Reg, Reg)
    /\ UNCHANGED <<edit, obs, text_boxes, text_edits, focused, current_frame, mouse,
                   text_changed, decorations_changed, using_frame_based_visibility,
                   crashed, handles, styleVars, renderer>>

----------------------------------------------------------------------------
(* Styles and layout refresh.  A style of the registry is modelled by its   *)
(* version id, the third component of an entry of Text.styles.  A Layout is *)
(* modelled by the parity of the number of times it was built: one call     *)
(* builds it at most once, so a call rebuilt the layout iff the parity      *)
(* changed.                                                                 *)

\* The most slots of Text.styles.
MaxStyles == 3
\* The most a version counter reaches.
MaxVersion == 4

DEFAULT_STYLE_HANDLE == 0

\* Text::new: the default style, with version 0, in slot 0.
NewStyles == SlabInsert(NewSlab, 0)

\* Text::new_style_id, as the new value of style_version_id_counter, which is
\* also the id returned.
NewStyleIdKeepsCounter(counter) == counter
new_style_id(counter) == counter + 1

\* The style and layout fields of a widget as text.rs reads them; style_id
\* holds no style's version until the first refresh writes one.
NewStyleBox ==
    [style |-> DEFAULT_STYLE_HANDLE, style_id |-> 0, needs_relayout |-> TRUE,
     layout |-> 0]

\* TextBox::new of text_box.rs: the default shared style.
NewTextBox ==
    [style |-> "Shared", shared_style_version |-> 0, needs_relayout |-> TRUE,
     layout |-> 0]

\* rebuild_layout: a new Layout, and needs_relayout cleared.
rebuild_layout(b) == [b EXCEPT !.layout = 1 - b.layout, !.needs_relayout = FALSE]

\* get_styles_for_element.  The fallback `&styles[DEFAULT_STYLE_HANDLE.i]` is
\* an argument of unwrap_or, so it is evaluated, and panics on a vacant slot,
\* whether or not the widget's own handle resolves.
get_styles_for_element(b, s) ==
    IF ~SlabContains(s, DEFAULT_STYLE_HANDLE)
    THEN [panicked |-> TRUE, box |-> b, changed |-> FALSE]
    ELSE LET id == IF SlabContains(s, b.style) THEN SlabGet(s, b.style)
                   ELSE SlabGet(s, DEFAULT_STYLE_HANDLE)
         IN [panicked |-> FALSE, box |-> [b EXCEPT !.style_id = id],
             changed |-> b.style_id # id]

refresh_text_box_layout(b, s) ==
    LET r == get_styles_for_element(b, s) IN
    IF r.panicked THEN r
    ELSE IF r.box.needs_relayout \/ r.changed
         THEN [r EXCEPT !.box = rebuild_layout(r.box)]
         ELSE r

\* refresh_text_edit_layout: the same test; the colour override it passes to
\* rebuild_layout is not part of the model.
refresh_text_edit_layout(b, s) ==
    LET r == get_styles_for_element(b, s) IN
    IF r.panicked THEN r
    ELSE IF r.box.needs_relayout \/ r.changed
         THEN [r EXCEPT !.box = rebuild_layout(r.box)]
         ELSE r

\* TextBox::refresh_layout of text_box.rs.  `version` is the shared style's
\* version, or None for a unique style.
refresh_layout(b, version) ==
    LET shared_style_changed ==
            IF IsSome(version) THEN b.shared_style_version = Unwrap(version)
            ELSE FALSE
    IN IF b.needs_relayout \/ shared_style_changed
       THEN [b EXCEPT !.layout = 1 - b.layout, !.needs_relayout = FALSE]
       ELSE b

\* TextBox::update_layout of text_box.rs.
update_layout(b) == [b EXCEPT !.layout = 1 - b.layout, !.needs_relayout = FALSE]

\* Style::with_text_style: the version the closure is given.
with_text_style(b, version) == IF b.style = "Shared" THEN Some(version) ELSE None

(***************************************************************************)
(* The observer of the style and layout operations.                         *)
(*   last      the name of the last call                                    *)
(*   slot      the slot of Text.styles the last call named                  *)
(*   before    the versions given to styles before the last call            *)
(*   assigned  the versions given to styles so far                          *)
(*   pre_box   text_box before the last call                                *)
(*   pre_tbox  tbox before the last call                                    *)
(*   seen      whether the widget has read a style's version into style_id  *)
(***************************************************************************)
NewStyObs ==
    [last |-> "new", slot |-> 0, before |-> {}, assigned |-> {0},
     pre_box |-> NewStyleBox, pre_tbox |-> NewTextBox, seen |-> FALSE]

StyObserve(kind, slot, given) ==
    [last |-> kind, slot |-> slot, before |-> sty.assigned,
     assigned |-> sty.assigned \cup given, pre_box |-> text_box, pre_tbox |-> tbox,
     seen |-> sty.seen \/ kind \in {"refresh_text_box_layout", "refresh_text_edit_layout"}]

StyleFrame ==
    UNCHANGED <<edit, obs, text_boxes, text_edits, focused, current_frame, mouse,
                decorations_changed, using_frame_based_visibility, now, handles, reg,
                renderer>>

\* The style handles the host can name: the constant DEFAULT_STYLE_HANDLE and
\* the handle of every style it added and has not removed.
StyleHandles == {DEFAULT_STYLE_HANDLE} \cup SlabKeys(styles)

\* Text::add_style
AddStyle ==
    /\ ~crashed
    /\ styles.next < MaxStyles
    /\ new_style_id(style_version_id_counter) <= MaxVersion
    /\ LET new_id == new_style_id(style_version_id_counter) IN
       /\ style_version_id_counter' = new_id
       /\ styles' = SlabInsert(styles, new_id)
       /\ sty' = StyObserve("add_style", styles.next, {new_id})
    /\ UNCHANGED <<text_box, shared_style, tbox, text_changed, crashed>>
    /\ StyleFrame

\* Text::get_text_style_mut and Text::get_text_edit_style_mut: the index
\* panics on a vacant slot.
StyleMutStep(kind, i) ==
    /\ ~crashed
    /\ new_style_id(style_version_id_counter) <= MaxVersion
    /\ IF SlabContains(styles, i)
       THEN LET new_id == new_style_id(style_version_id_counter) IN
            /\ style_version_id_counter' = new_id
            /\ styles' = SlabSet(styles, i, new_id)
            /\ text_changed' = TRUE
            /\ sty' = StyObserve(kind, i, {new_id})
            /\ UNCHANGED crashed
       ELSE /\ crashed' = TRUE
            /\ sty' = StyObserve("panic", i, {})
            /\ UNCHANGED <<style_version_id_counter, styles, text_changed>>
    /\ UNCHANGED <<text_box, shared_style, tbox>>
    /\ StyleFrame

GetTextStyleMut == \E i \in StyleHandles : StyleMutStep("get_text_style_mut", i)
GetTextEditStyleMut == \E i \in StyleHandles : StyleMutStep("get_text_edit_style_mut", i)

\* Text::remove_style: Slab::remove panics on a vacant slot.
RemoveStyle ==
    \E i \in StyleHandles :
        /\ ~crashed
        /\ IF SlabContains(styles, i)
           THEN /\ styles' = SlabRemove(styles, i)
                /\ sty' = StyObserve("remove_style", i, {})
                /\ UNCHANGED crashed
           ELSE /\ crashed' = TRUE
                /\ sty' = StyObserve("panic", i, {})
                /\ UNCHANGED styles
        /\ UNCHANGED <<style_version_id_counter, text_box, shared_style, tbox,
                       text_changed>>
        /\ StyleFrame

\* TextEdit::set_style: the handle is copied; needs_relayout and the cached
\* style_id are left alone.
SetStyle ==
    \E i \in StyleHandles :
        /\ ~crashed
        /\ text_box' = [text_box EXCEPT !.style = i]
        /\ sty' = StyObserve("set_style", i, {})
        /\ UNCHANGED <<styles, style_version_id_counter, shared_style, tbox,
                       text_changed, crashed>>
        /\ StyleFrame

\* Text::set_text_edit_text, as far as the layout goes: set_text sets
\* needs_relayout, the registry sets text_changed.
SetTextEditText ==
    /\ ~crashed
    /\ text_box' = [text_box EXCEPT !.needs_relayout = TRUE]
    /\ text_changed' = TRUE
    /\ sty' = StyObserve("set_text", 0, {})
    /\ UNCHANGED <<styles, style_version_id_counter, shared_style, tbox, crashed>>
    /\ StyleFrame

LayoutStep(kind, r) ==
    /\ ~crashed
    /\ IF r.panicked
       THEN /\ crashed' = TRUE
            /\ sty' = StyObserve("panic", 0, {})
            /\ UNCHANGED text_box
       ELSE /\ text_box' = r.box
            /\ sty' = StyObserve(kind, 0, {})
            /\ UNCHANGED crashed
    /\ UNCHANGED <<styles, style_version_id_counter, shared_style, tbox, text_changed>>
    /\ StyleFrame

\* Text::get_text_box_layout
GetTextBoxLayout ==
    LayoutStep("refresh_text_box_layout", refresh_text_box_layout(text_box, styles))
\* Text::get_text_edit_layout
GetTextEditLayout ==
    LayoutStep("refresh_text_edit_layout", refresh_text_edit_layout(text_box, styles))

TBoxStep(kind, b2, version2) ==
    /\ ~crashed
    /\ version2 <= MaxVersion
    /\ tbox' = b2
    /\ shared_style' = version2
    /\ sty' = StyObserve(kind, 0, {})
    /\ UNCHANGED <<styles, style_version_id_counter, text_box, text_changed, crashed>>
    /\ StyleFrame

\* SharedStyle::with_borrow_mut
WithBorrowMut == TBoxStep("with_borrow_mut", tbox, shared_style + 1)
\* TextBox::set_shared_style
SetSharedStyle ==
    TBoxStep("set_shared_style",
             [tbox EXCEPT !.style = "Shared", !.needs_relayout = TRUE], shared_style)
\* TextBox::set_unique_style
SetUniqueStyle ==
    TBoxStep("set_unique_style",
             [tbox EXCEPT !.style = "Unique", !.needs_relayout = TRUE], shared_style)
\* TextBox::layout, TextBox::refresh_layout
RefreshLayout ==
    TBoxStep("refresh_layout",
             refresh_layout(tbox, with_text_style(tbox, shared_style)), shared_style)
\* TextBox::update_layout
UpdateLayout == TBoxStep("update_layout", update_layout(tbox), shared_style)

----------------------------------------------------------------------------
(* Specifications. *)

\* The registry as Text::new() leaves it, no widget added.
InitRegistry ==
    /\ text_boxes = NewText.text_boxes
    /\ text_edits = NewText.text_edits
    /\ focused = NewText.focused
    /\ current_frame = NewText.current_frame
    /\ mouse = NewText.mouse
    /\ text_changed = NewText.text_changed
    /\ decorations_changed = NewText.decorations_changed
    /\ using_frame_based_visibility = NewText.using_frame_based_visibility
    /\ crashed = NewText.crashed
    /\ now = 0
    /\ handles = {}
    /\ reg = NewRegObs
    /\ styles = NewStyles
    /\ style_version_id_counter = 0
    /\ text_box = NewStyleBox
    /\ shared_style = 0
    /\ tbox = NewTextBox
    /\ sty = NewStyObs
    /\ renderer = NewTextRenderer

InitEdit ==
    /\ edit \in {NewTextEdit(t) : t \in InitTexts}
    /\ obs = NewObs

\* The registry under the calls that add, refresh, hide and remove widgets.
Init ==
    /\ InitRegistry
    /\ edit = NewTextEdit(<<>>)
    /\ obs = NewObs

Next ==
    \/ (\E placement \in Placements : AddTextBox(placement))
    \/ (\E placement \in Placements : AddTextEdit(placement))
    \/ RemoveTextBox \/ RemoveTextEdit
    \/ RefreshTextBox \/ RefreshTextEdit
    \/ AdvanceFrame \/ RemoveOldNodes
    \/ SetHidden \/ SetCanHide

Spec == Init /\ [][Next]_vars

\* The registry under window events: the focus and the widgets it moves over.
NextFocus ==
    \/ AddTextBox(Back) \/ AddTextEdit(Front)
    \/ RemoveTextBox \/ RemoveTextEdit
    \/ RefreshTextBox \/ RefreshTextEdit
    \/ AdvanceFrame \/ RemoveOldNodes
    \/ SetHidden
    \/ (\E pos \in {<<0, 0>>, <<5, 1>>} : CursorMoved(pos))
    \/ KeyboardInput \/ MousePress \/ MousePressWithTopmost

SpecFocus == Init /\ [][NextFocus]_vars

\* The registry under left presses at chosen times and positions.
NextClick ==
    \/ (\E placement \in Placements : AddTextEdit(placement))
    \/ RemoveTextEdit
    \/ (\E pos \in Positions : CursorMoved(pos))
    \/ MousePress
    \/ Tick

SpecClick == Init /\ [][NextClick]_vars

\* The registry under left presses over widgets at every depth.
NextHit ==
    \/ (\E placement \in Placements \cup {Far} : AddTextBox(placement))
    \/ (\E placement \in Placements \cup {Far} : AddTextEdit(placement))
    \/ RefreshTextEdit
    \/ AdvanceFrame
    \/ SetHidden
    \/ (\E pos \in {<<0, 0>>, <<6, 0>>} : CursorMoved(pos))
    \/ MousePress

SpecHit == Init /\ [][NextHit]_vars

\* The registry under events through both entry points, and the renderer's
\* prepare_all between them.
NextEvents ==
    \/ AddTextBox(Back) \/ AddTextEdit(Front)
    \/ PrepareAll
    \/ (\E pos \in {<<0, 0>>, <<5, 1>>} : CursorMoved(pos))
    \/ KeyboardInput \/ Resized \/ EventWithTopmost
    \/ MousePress \/ MousePressWithTopmost

SpecEvents == Init /\ [][NextEvents]_vars

\* The registry when the host refreshes through handles it kept over sweeps.
NextStale ==
    \/ (\E placement \in Placements : AddTextBox(placement))
    \/ (\E placement \in Placements : AddTextEdit(placement))
    \/ AdvanceFrame \/ SweepHeld \/ RefreshHeld
    \/ SetCanHide

SpecStale == Init /\ [][NextStale]_vars

\* The registry under presses that move the focus between widgets that hold
\* a selection.
NextRefocus ==
    \/ AddTextBox(Back) \/ AddTextEdit(Front)
    \/ (\E pos \in {<<0, 0>>, <<6, 0>>, <<9, 9>>} : CursorMoved(pos))
    \/ FocusedSelects \/ PrepareAll
    \/ MousePress \/ MousePressWithTopmost

SpecRefocus == Init /\ [][NextRefocus]_vars

\* The registry over frames: widgets added, refreshed and swept, presses,
\* and the renderer's prepare_all.
NextFrames ==
    \/ AddTextBox(Back) \/ AddTextEdit(Front)
    \/ RefreshTextEdit
    \/ AdvanceFrame \/ RemoveOldNodes
    \/ MousePress
    \/ PrepareAll

SpecFrames == Init /\ [][NextFrames]_vars

\* The declarative interface: widgets added, refreshed, kept or swept
\* frame by frame, with prepare_all at any point.
NextSweep ==
    \/ AddTextBox(Back) \/ AddTextEdit(Front)
    \/ RefreshTextBox \/ RefreshTextEdit
    \/ AdvanceFrame \/ RemoveOldNodes
    \/ SetCanHide
    \/ PrepareAll

SpecSweep == Init /\ [][NextSweep]_vars

\* The registry under the calls that mark the text as changed, the ones that
\* do not, and the prepare_all that takes the mark away.
NextDirty ==
    \/ AddTextBox(Back) \/ AddTextEdit(Front)
    \/ RemoveTextBox \/ RemoveTextEdit
    \/ RefreshTextEdit
    \/ AdvanceFrame \/ RemoveOldNodes
    \/ SetHidden
    \/ GetTextStyleMut \/ GetTextEditStyleMut
    \/ Resized
    \/ PrepareAll

SpecDirty == Init /\ [][NextDirty]_vars

\* The registry under every call and every kind of event.
NextFocusChange ==
    \/ AddTextBox(Back)
    \/ (\E placement \in Placements : AddTextEdit(placement))
    \/ RemoveTextBox \/ RemoveTextEdit
    \/ RefreshTextEdit
    \/ AdvanceFrame \/ RemoveOldNodes
    \/ SetTextEditDisabled
    \/ OtherEvent
    \/ MousePress

SpecFocusChange == Init /\ [][NextFocusChange]_vars

\* One text edit, empty or holding a word, under typing at the end of the
\* text, Backspace and undo.
TypedWord == <<"h", "e", "l", "l", "o">>

InitTyping ==
    /\ edit \in {NewTextEdit(<<>>), NewTextEdit(TypedWord)}
    /\ obs = NewObs
    /\ InitRegistry

NextTyping == TypeCharacter \/ TypeSpace \/ TypeBackspace \/ TypeUndo \/ TypeEnd

SpecTyping == InitTyping /\ [][NextTyping]_vars

\* An empty text edit, single-line or not, under pastes and undo.
InitPaste == edit = NewTextEdit(<<>>) /\ obs = NewObs /\ InitRegistry

NextPaste == PasteClip \/ PasteSingleLine \/ PasteSelectAll \/ PasteUndo

SpecPaste == InitPaste /\ [][NextPaste]_vars

\* An empty text edit with a placeholder under typing, paste, commits, undo
\* and redo.
InitPlaceholder == edit = NewTextEdit(<<>>) /\ obs = NewObs /\ InitRegistry

NextPlaceholder ==
    \/ SetPlaceholder
    \/ KeyCharacter \/ KeySpace \/ KeyPaste \/ KeyUndo \/ KeyRedo
    \/ ImeCommit

SpecPlaceholder == InitPlaceholder /\ [][NextPlaceholder]_vars

\* An empty text edit under long runs of one character and of Backspace.
InitLong == edit = NewTextEdit(<<>>) /\ obs = NewObs /\ InitRegistry

NextLong == LongCharacter \/ LongBackspace \/ LongUndo

SpecLong == InitLong /\ [][NextLong]_vars

\* A text edit holding letters and spaces, under runs of the Delete key.
DeleteRunTexts == UNION {[1..n -> {"a", "b", "SP"}] : n \in 0..MaxDeleted}

InitDeleteRun ==
    /\ edit \in {NewTextEdit(t) : t \in DeleteRunTexts}
    /\ obs = NewObs
    /\ InitRegistry

NextDeleteRun == DeleteRunMove \/ DeleteRunDelete \/ DeleteRunUndo

SpecDeleteRun == InitDeleteRun /\ [][NextDeleteRun]_vars

\* One text edit under typing, deleting, caret moves, undo and redo.
InitHistory == InitEdit /\ InitRegistry

NextHistory ==
    \/ KeyCharacter \/ KeyBackspace \/ KeyDelete \/ KeyUndo \/ KeyRedo
    \/ KeyMove \/ SelectAll \/ KeyCut

SpecHistory == InitHistory /\ [][NextHistory]_vars

\* One text edit under the IME, the setters and caret moves.
InitIme == InitEdit /\ InitRegistry

NextIme ==
    \/ ImePreedit \/ ImePreeditEmpty \/ ImeDisabled \/ ImeCommit
    \/ KeyMove \/ SelectAll
    \/ SetText \/ SetPlaceholder \/ SetSingleLine

SpecIme == InitIme /\ [][NextIme]_vars

\* One text edit under the Enter key in every newline mode.
NextEnter ==
    \/ SetNewlineMode \/ SetSingleLine \/ SetDisabled
    \/ SetPlaceholder \/ SetText
    \/ KeyEnter

SpecEnter == InitIme /\ [][NextEnter]_vars

\* One text edit that is enabled, disabled, shown and hidden between events.
NextDisabled ==
    \/ SetDisabled \/ SetEditHidden
    \/ KeyCharacter \/ KeyBackspace \/ KeyUndo
    \/ ImePreedit \/ ImeDisabled

SpecDisabled == InitIme /\ [][NextDisabled]_vars

\* The style registry: styles added, changed, removed and given to a widget.
NextStyles ==
    \/ AddStyle \/ GetTextStyleMut \/ GetTextEditStyleMut \/ RemoveStyle
    \/ SetStyle \/ SetTextEditText \/ GetTextBoxLayout

SpecStyles == Init /\ [][NextStyles]_vars

\* A widget's layout under style changes, text changes and refreshes, through
\* the registry (text.rs) and through TextBox itself (text_box.rs).
NextLayout ==
    \/ GetTextStyleMut \/ SetTextEditText
    \/ GetTextBoxLayout \/ GetTextEditLayout
    \/ WithBorrowMut \/ SetSharedStyle \/ SetUniqueStyle \/ RefreshLayout
    \/ UpdateLayout

SpecLayout == Init /\ [][NextLayout]_vars

----------------------------------------------------------------------------
(* Properties. *)

\* C1: once every recorded edit has been undone (only edits and caret moves,
\* then only undos, current_position back at 0), the buffer and the selection
\* are those that existed before the first recorded edit.
C1_UndoAllRestores ==
    (obs.phase = "undoing" /\ edit.history.current_position = 0)
        => (~edit.panicked /\ edit.text = obs.text0 /\ edit.sel = obs.sel0)

\* C2: right after an undo that was possible and the redo that follows it,
\* the buffer is what it was before the undo and the selection is collapsed.
C2_UndoRedoIdentity ==
    obs.last = "undo_redo"
        => (~edit.panicked /\ edit.text = obs.pre_undo /\ is_collapsed(edit.sel))

\* C3: whenever current_position < history.len(), the entry at
\* current_position has a populated redo whose deleted_range lies inside
\* redo_text, so that redo cannot fail.
C3_RedoEntryValid ==
    LET h == edit.history IN
    (~edit.panicked /\ h.current_position < Len(h.history))
        => LET op == h.history[h.current_position + 1] IN
           /\ op.redo # None
           /\ ValidRange(h.redo_text, Unwrap(op.redo).deleted_range)

\* C4: a single-line text edit never holds a '\n' or a '\r' in its backing
\* string after an event or an API call returns.
C4_SingleLineNoNewline ==
    (~edit.panicked /\ edit.single_line) => ~HasNewline(edit.text)

\* C5 as stated: after set_compose calls and the clear_compose that ends
\* them, the buffer is what it was before the first set_compose.
C5_ComposeRestoresBuffer ==
    obs.cleared # None => Unwrap(obs.cleared) = Unwrap(obs.base).text

\* The buffer with '\n' and '\r' read as spaces when the edit is single-line.
C5_Norm(text) == IF edit.single_line THEN remove_newlines_inplace(text) ELSE text

\* C5, amended: after set_compose calls and the clear_compose that ends
\* them, the buffer is what it was before the first set_compose with the
\* text that was selected then removed (in a single-line edit, up to the
\* replacement of newlines by spaces).
C5_ComposeRemovesSelection ==
    obs.cleared # None
        => C5_Norm(Unwrap(obs.cleared))
               = C5_Norm(ReplaceRange(Unwrap(obs.base).text, Unwrap(obs.base).range, <<>>))

\* A composition of several set_compose calls that began on a non-empty
\* selection has just been cleared.
C5_Witness ==
    /\ obs.cleared # None
    /\ ~RangeIsEmpty(Unwrap(obs.base).range)
    /\ Unwrap(obs.base).many

\* C6: every handle the host holds names an occupied slot of its kind that
\* holds the record its add created, and no two handles of one kind carry
\* the same slot index.
C6_HandlesResolve ==
    \A h \in handles :
        /\ BoxExists(Reg, [kind |-> h.kind, i |-> h.i])
        /\ BoxWidget(Reg, [kind |-> h.kind, i |-> h.i]).id = h.id
        /\ \A h2 \in handles : (h2.kind = h.kind /\ h2.i = h.i) => h2 = h

\* A handle is live at slot 1 after another handle's slot 0 was removed, or
\* at slot 0 after another widget had it.
C6_Witness ==
    \E h \in handles :
        \/ h.i = 1 /\ ~BoxExists(Reg, [kind |-> h.kind, i |-> 0])
        \/ h.i = 0 /\ h.id = 2

\* C7: after an event the registry handled, the focused widget, if any, is
\* not hidden and was touched in the current frame.
C7_FocusedIsVisible ==
    (reg.last \in {"event", "press"} /\ focused # None)
        => /\ BoxExists(Reg, Unwrap(focused))
           /\ ~BoxWidget(Reg, Unwrap(focused)).hidden
           /\ BoxWidget(Reg, Unwrap(focused)).last_frame_touched = current_frame

\* C8: right after a call that destroyed the focused widget, focused is
\* None; focused is always None or an occupied slot of its kind; and right
\* after a left press delivered to the widget that alone is topmost under the
\* cursor, that widget is focused.
C8_FocusFollowsWidgets ==
    /\ reg.kill = "just" => focused = None
    /\ focused # None => BoxExists(Reg, Unwrap(focused))
    /\ (reg.last = "press" /\ reg.hit # None) => focused = reg.hit

\* The focused widget was destroyed, and the next left press landed on
\* another widget, which has the focus now.
C8_Witness ==
    /\ reg.kill = "clicked"
    /\ reg.hit # None
    /\ focused = reg.hit

\* C9: right after remove_old_nodes, the widgets are exactly those there
\* were before that had last_frame_touched == current_frame or can_hide, each
\* in its slot and unchanged; so every widget left has one of the two.
C9_SweepRemovesExactly ==
    reg.last = "sweep"
        => /\ AllWidgets(Reg) = {x \in reg.before :
                                    \/ x.w.last_frame_touched = current_frame
                                    \/ x.w.can_hide}
           /\ \A x \in AllWidgets(Reg) :
                  x.w.last_frame_touched = current_frame \/ x.w.can_hide

\* A sweep after a frame advance removed a widget and kept one that was not
\* refreshed but can hide.
C9_Witness ==
    /\ reg.last = "sweep"
    /\ reg.before # AllWidgets(Reg)
    /\ \E x \in AllWidgets(Reg) : x.w.last_frame_touched # current_frame /\ x.w.can_hide

\* C10 as stated: right after a left press, click_count is the number of
\* presses in a row, each less than 400 ms after and within squared distance
\* 26 of the one before, with the same widget focused.
C10_CountIsRunLength ==
    reg.last = "press" => mouse.click_count = reg.run_id

\* C10, amended: right after a left press, click_count is, modulo 4, the
\* number of presses in a row, each less than 400 ms after and within squared
\* distance 26 of the one before, with `focused` holding the same kind and
\* slot index after both.
C10_CountIsRunLengthMod4 ==
    reg.last = "press" => mouse.click_count = reg.run % 4

\* Four presses in a row, during which the focused slot was given to another
\* widget.
C10_Witness ==
    /\ reg.last = "press"
    /\ reg.run = 4
    /\ reg.run_id # reg.run

\* C11 as stated: in an unbroken run of qualifying left presses click_count
\* takes the values 1, 2, 3, 1, 1, ...: never 0 after a press.
C11_CountNeverZero ==
    reg.last = "press" => mouse.click_count = (IF reg.run <= 3 THEN reg.run ELSE 1)

\* C11, amended: a left press that continues a run of qualifying presses
\* takes click_count to (click_count + 1) % 4, so that the values are
\* 1, 2, 3, 0, 1, 2, 3, 0, ...: 0 after every fourth press, never above 3.
C11_CountCycles ==
    [][(reg'.last = "press" /\ reg'.run > 1)
           => /\ mouse'.click_count = (mouse.click_count + 1) % 4
              /\ mouse'.click_count <= 3]_vars

\* The fifth press of an unbroken run: the count went through 0 and is 1.
C11_Witness ==
    /\ reg.last = "press"
    /\ reg.run = 5
    /\ mouse.click_count = 1

\* The non-empty strings a replacement is recorded with.
C12_Strs == {<<"a">>, <<"SP">>, <<"a", "b">>}

\* C12: in every reachable history, whatever the grow hint, a record call
\* with a non-empty old_str and a non-empty new_str (inserted at a, so
\* inserted_range = a..a+new_str.len()) appends one entry after the entries
\* up to current_position, which it leaves unchanged, and increments
\* current_position; the entry holds the inserted range and the old text.
C12_MixedRecordPushes ==
    ~edit.panicked =>
        \A old_str \in C12_Strs, new_str \in C12_Strs, a \in 0..MaxLen :
            LET h == edit.history
                h2 == record(h, old_str, new_str, edit.sel, <<a, a + Len(new_str)>>)
                op == Last(h2.history)
            IN /\ h2.current_position = h.current_position + 1
               /\ Len(h2.history) = h.current_position + 1
               /\ SubSeq(h2.history, 1, h.current_position)
                      = SubSeq(h.history, 1, h.current_position)
               /\ op.undo.inserted_range = <<a, a + Len(new_str)>>
               /\ Slice(h2.undo_text, op.undo.deleted_range) = old_str
               /\ op.redo = None

\* A replacement of selected text was recorded as a second entry while the
\* hint of the first one allowed growing.
C12_Witness ==
    LET h == edit.history IN
    /\ Len(h.history) = 2
    /\ h.current_position = 2
    /\ ~is_insert_only(h.history[2].undo)
    /\ ~is_delete_only(h.history[2].undo)
    /\ h.can_grow = CannotGrow
    /\ obs.last = "edit"

\* C13: current_position stays within 0..history.len(); an undo takes it
\* down by exactly 1, or leaves it at 0; a redo takes it up by exactly 1, or
\* leaves it at history.len(), and neither changes the number of entries;
\* right after an edit that recorded, current_position == history.len().
C13_PositionDiscipline ==
    [][LET h == edit.history
           h2 == edit'.history
       IN /\ h2.current_position \in 0..Len(h2.history)
          /\ obs'.last \in {"undo", "noop"}
                 => /\ h2.current_position
                           = (IF h.current_position > 0 THEN h.current_position - 1 ELSE 0)
                    /\ Len(h2.history) = Len(h.history)
          /\ obs'.last \in {"redo", "undo_redo"}
                 => /\ h2.current_position
                           = (IF h.current_position < Len(h.history)
                              THEN h.current_position + 1 ELSE h.current_position)
                    /\ Len(h2.history) = Len(h.history)
          /\ (obs'.last = "edit" /\ h2 # h)
                 => h2.current_position = Len(h2.history)]_vars

\* Two entries were recorded, the second was undone and redone:
\* current_position is back at history.len().
C13_Witness ==
    /\ obs.last = "undo_redo"
    /\ Len(edit.history.history) = 2
    /\ edit.history.current_position = 2
    /\ edit.history.history[2].redo # None

\* The buffer holds non-whitespace characters only.
C14_IsWord(text) == \A i \in 1..Len(text) : ~IsWhitespaceChar(text[i])

\* C14: after non-whitespace characters typed one at a time into an empty
\* text edit, and nothing else recorded, the history has one entry and one
\* undo restores the empty buffer.
C14_TypedWordIsOneEntry ==
    (/\ obs.phase = "edits" /\ obs.text0 = <<>> /\ edit.history.undo_text = <<>>
     /\ edit.text # <<>> /\ C14_IsWord(edit.text))
        => /\ Len(edit.history.history) = 1
           /\ edit.history.current_position = 1
           /\ ~undo(edit).panicked
           /\ undo(edit).text = <<>>
           /\ undo(edit).history.current_position = 0

\* Five characters were typed into the empty edit and one undo emptied it.
C14_Witness ==
    /\ obs.last = "undo"
    /\ obs.phase = "undoing"
    /\ obs.text0 = <<>>
    /\ Len(obs.pre_undo) = 5
    /\ C14_IsWord(obs.pre_undo)
    /\ edit.text = <<>>
    /\ Len(edit.history.history) = 1

\* C15: after Backspace presses only, the first with the caret at the end of
\* "hello" (five of them empty the buffer), the history has one entry and one
\* undo restores "hello" with the caret at byte 5.
C15_BackspacesAreOneEntry ==
    (/\ obs.phase = "edits" /\ obs.text0 = TypedWord /\ obs.sel0 = Caret(5)
     /\ edit.history.undo_text # <<>>
     /\ Len(edit.text) + Len(edit.history.undo_text) = 5)
        => /\ Len(edit.history.history) = 1
           /\ ~undo(edit).panicked
           /\ undo(edit).text = TypedWord
           /\ undo(edit).sel = Caret(5)

\* Five Backspace presses emptied "hello" and one undo brought it back.
C15_Witness ==
    /\ obs.last = "undo"
    /\ obs.phase = "undoing"
    /\ obs.text0 = TypedWord
    /\ obs.sel0 = Caret(5)
    /\ obs.pre_undo = <<>>
    /\ edit.text = TypedWord
    /\ edit.sel = Caret(5)
    /\ Len(edit.history.history) = 1

\* The buffer is a word, one space, and a word ("abc def").
C16_TwoWords(text) ==
    \E m \in 1..Len(text) :
        /\ m > 1 /\ m < Len(text)
        /\ text[m] = "SP"
        /\ C14_IsWord(SubSeq(text, 1, m - 1))
        /\ C14_IsWord(SubSeq(text, m + 1, Len(text)))

\* C16: after a word, a space and a second word typed one character at a
\* time into an empty text edit, the history has two entries; the first undo
\* leaves the first word and the space, the second the empty buffer.
C16_SpaceSplitsEntries ==
    (/\ obs.phase = "edits" /\ obs.text0 = <<>> /\ edit.history.undo_text = <<>>
     /\ C16_TwoWords(edit.text))
        => LET once == undo(edit)
               twice == undo(once)
           IN /\ Len(edit.history.history) = 2
              /\ edit.history.current_position = 2
              /\ ~once.panicked
              /\ C14_IsWord(SubSeq(once.text, 1, Len(once.text) - 1))
              /\ once.text \o SubSeq(edit.text, Len(once.text) + 1, Len(edit.text)) = edit.text
              /\ Len(once.text) > 1
              /\ once.text[Len(once.text)] = "SP"
              /\ ~twice.panicked
              /\ twice.text = <<>>

\* "abc def" was typed and two undos emptied the buffer, the first of them
\* having left "abc ".
C16_Witness ==
    /\ obs.last = "undo"
    /\ obs.phase = "undoing"
    /\ obs.text0 = <<>>
    /\ obs.pre_undo = <<"c", "c", "c", "SP">>
    /\ edit.text = <<>>
    /\ Len(edit.history.history) = 2
    /\ edit.history.history[2].undo.inserted_range = <<4, 7>>

\* C17: no history entry covers more inserted text, or more deleted text,
\* than MAX_GROWABLE_SIZE bytes plus the size of the last edit merged into it.
C17_CoalescingBounded ==
    \A i \in 1..Len(edit.history.history) :
        LET op == edit.history.history[i].undo IN
        /\ RangeLen(op.inserted_range) <= MAX_GROWABLE_SIZE + edit.history.can_grow.size
        /\ RangeLen(op.deleted_range) <= MAX_GROWABLE_SIZE + edit.history.can_grow.size

\* The UTF-8 bytes of the preedit and of the commit of the round trip.
C18_Kan == <<"E6", "BC", "A2">>
C18_KanJi == <<"E6", "BC", "A2", "E5", "AD", "97">>

\* C18: with buffer "ab" and the caret at 2, Ime::Preedit("漢", Some((0,1)))
\* gives buffer "ab漢", selection (2,5), show_cursor and compose = 2..5, and
\* Ime::Commit("漢字") right after it is handled without failure and gives
\* buffer "ab漢字", no composition and the caret at 8.
C18_ImeRoundTrip ==
    (/\ edit.text = <<"a", "b">> /\ edit.sel = Caret(2) /\ ~is_composing(edit)
     /\ ~edit.panicked /\ ~edit.disabled /\ ~edit.hidden /\ ~edit.showing_placeholder)
        => LET e1 == on_ime_preedit(edit, C18_Kan, Some(<<0, 1>>))
               e2 == on_ime_commit(e1, C18_KanJi)
           IN /\ e1.text = <<"a", "b">> \o C18_Kan
              /\ e1.sel = Sel(2, 5)
              /\ e1.show_cursor
              /\ e1.compose = Some(<<2, 5>>)
              /\ ~e2.panicked
              /\ e2.text = <<"a", "b">> \o C18_KanJi
              /\ e2.compose = None
              /\ e2.sel = Caret(8)

\* C19: in a single-line text edit a paste puts the clipboard text in place
\* of the selection with every '\n' and '\r' byte replaced by one space, the
\* length unchanged, and leaves a collapsed caret after it; "a\nb\r\nc"
\* pasted into the empty edit gives "a b  c" with the caret at byte 6.
C19_PasteReplacesNewlines ==
    (edit.single_line /\ ~edit.panicked /\ ~HasNewline(edit.text)) =>
        \A clip \in PasteClips :
            LET range == text_range(edit.sel)
                e2 == on_key_paste(edit, clip)
            IN /\ ~e2.panicked
               /\ Len(e2.text) = Len(edit.text) - RangeLen(range) + Len(clip)
               /\ \A i \in 1..Len(clip) :
                      e2.text[range[1] + i]
                          = (IF clip[i] \in {"NL", "CR"} THEN "SP" ELSE clip[i])
               /\ SubSeq(e2.text, 1, range[1]) = SubSeq(edit.text, 1, range[1])
               /\ SubSeq(e2.text, range[1] + Len(clip) + 1, Len(e2.text))
                      = SubSeq(edit.text, range[2] + 1, Len(edit.text))
               /\ e2.sel = Caret(range[1] + Len(clip))
               /\ (edit.text = <<>> /\ clip = <<"a", "NL", "b", "CR", "NL", "c">>)
                      => e2.text = <<"a", "SP", "b", "SP", "SP", "c">> /\ e2.sel = Caret(6)

\* "a\nb\r\nc" was pasted into the empty single-line edit.
C19_Witness ==
    /\ obs.last = "edit"
    /\ edit.single_line
    /\ edit.text = <<"a", "SP", "b", "SP", "SP", "c">>
    /\ edit.sel = Caret(6)
    /\ Len(edit.history.history) = 1
    /\ edit.history.history[1].undo.inserted_range = <<0, 6>>

\* C20: set_text(new) clears the edit history: whatever was recorded before
\* it, undo and redo after it are no-ops that leave the buffer equal to new;
\* the caret is at the end of new, compose is None and showing_placeholder
\* is false.
C20_SetTextClearsHistory ==
    ~edit.panicked =>
        \A new \in SetTexts :
            LET e1 == set_text(edit, new)
                u == on_key_undo(e1)
                r == on_key_redo(e1)
            IN /\ e1.text = new
               /\ e1.sel = Caret(Len(new))
               /\ e1.compose = None
               /\ ~e1.showing_placeholder
               /\ ~u.panicked /\ u.text = new
               /\ ~r.panicked /\ r.text = new

\* C21: while compose is Some, no event of TextEdit::handle_event reaches a
\* mutating edit API other than set_compose / clear_compose: the keyboard
\* events, undo and redo leave the buffer, the compose range and the history
\* unchanged, and the assertion !is_composing() of insert_or_replace_selection,
\* delete and backdelete never fails, Ime::Commit included.
C21_ComposingForbidsEdits ==
    (is_composing(edit) /\ ~edit.panicked /\ ~edit.disabled /\ ~edit.hidden) =>
        LET same(e2) == /\ ~e2.panicked
                        /\ e2.text = edit.text
                        /\ e2.compose = edit.compose
                        /\ e2.history = edit.history
        IN /\ \A c \in TypedChars : same(on_key_character(edit, <<c>>))
           /\ \A sh \in BOOLEAN, am \in BOOLEAN : same(on_key_enter(edit, sh, am))
           /\ same(on_key_backspace(edit))
           /\ same(on_key_delete(edit))
           /\ \A clip \in Clips : same(on_key_paste(edit, clip))
           /\ same(on_key_cut(edit))
           /\ same(on_key_undo(edit))
           /\ same(on_key_redo(edit))
           /\ \A t \in Clips : ~on_ime_commit(edit, t).panicked

\* C22: in every reachable state, showing_placeholder implies that the buffer
\* equals the configured placeholder string verbatim and that the selection
\* is collapsed at byte 0.
C22_PlaceholderVerbatim ==
    (edit.showing_placeholder /\ ~edit.panicked) =>
        /\ edit.placeholder_text # None
        /\ edit.text = Unwrap(edit.placeholder_text)
        /\ edit.sel = Caret(0)

\* C23: while the placeholder is shown, a text insertion (character key,
\* Space, paste, Ime::Commit) first clears the placeholder, so that the buffer
\* is exactly the inserted text and showing_placeholder is false; an event
\* that leaves the buffer empty with a placeholder configured shows the
\* placeholder again at its end; undo and redo clear the placeholder before
\* they restore non-empty content.
C23_Inserted(e2, s) == ~e2.panicked /\ e2.text = s /\ ~e2.showing_placeholder

C23_Restored(e2) ==
    (~e2.panicked /\ e2.placeholder_text # None /\ e2.text = <<>>)
        => e2.showing_placeholder /\ e2.text = Unwrap(e2.placeholder_text)

C23_PlaceholderClearedAndRestored ==
    (~edit.panicked /\ ~is_composing(edit)) =>
        /\ edit.showing_placeholder =>
               /\ \A c \in TypedChars : C23_Inserted(on_key_character(edit, <<c>>), <<c>>)
               /\ C23_Inserted(on_key_character(edit, <<"SP">>), <<"SP">>)
               /\ \A clip \in Clips \ {<<>>} : C23_Inserted(on_key_paste(edit, clip), clip)
               /\ \A t \in Preedits : C23_Inserted(on_ime_commit(edit, t), t)
        /\ \A c \in TypedChars : C23_Restored(on_key_character(edit, <<c>>))
        /\ \A clip \in Clips : C23_Restored(on_key_paste(edit, clip))
        /\ C23_Restored(on_key_backspace(edit))
        /\ C23_Restored(on_key_cut(edit))
        /\ C23_Restored(on_key_undo(edit))
        /\ C23_Restored(on_key_redo(edit))
        /\ (edit.showing_placeholder /\ edit.history.current_position > 0) =>
               LET op == history_undo(edit.history, edit.text)[2]
                   u == on_key_undo(edit)
               IN op.text_to_restore # <<>> =>
                      /\ ~u.panicked /\ ~u.showing_placeholder
                      /\ u.text = op.text_to_restore
        /\ (edit.showing_placeholder
            /\ edit.history.current_position < Len(edit.history.history)) =>
               LET op == history_redo(edit.history)[2]
                   r == on_key_redo(edit)
               IN op.text_to_restore # <<>> =>
                      /\ ~r.panicked /\ ~r.showing_placeholder
                      /\ r.text = op.text_to_restore

\* C24: right after a left press that handle_event handled, the focused
\* widget is one of minimal depth among the widgets that are not hidden, were
\* touched in the current frame and cover the cursor position, and focused is
\* None exactly when there is no such widget.
C24_Under ==
    {x \in AllWidgets(Reg) : /\ ~x.w.hidden
                             /\ x.w.last_frame_touched = current_frame
                             /\ mouse.cursor_pos \in x.w.area}

C24_PressFocusesTopmost ==
    (reg.last = "press" /\ ~crashed) =>
        /\ focused = None <=> C24_Under = {}
        /\ focused # None =>
               \E x \in C24_Under :
                   /\ Unwrap(focused) = [kind |-> x.kind, i |-> x.i]
                   /\ \A y \in C24_Under : x.w.depth <= y.w.depth

\* C25: for every event that is not a MouseInput, handle_event(event) and
\* handle_event_with_topmost(event, t), for any t, lead from the same registry
\* to the same registry, text_changed included (a Resized event marks
\* text_changed under both); for a left press, handle_event(event) equals
\* handle_event_with_topmost(event, find_topmost_text_box(event)).
C25_EntryPointsAgree ==
    ~crashed =>
        \A result \in EventResults :
            /\ \A event \in {ev \in OtherEvents : ev.type \notin {"LeftRelease", "RightPress"}} :
                   \A t \in {None} \cup {Some([kind |-> x.kind, i |-> x.i]) : x \in AllWidgets(Reg)} :
                       handle_event_with_topmost(Reg, event, now, result, t)
                           = handle_event(Reg, event, now, result)
            /\ handle_event_with_topmost(Reg, [type |-> "LeftPress"], now, result,
                                         find_topmost_at_pos(Reg, mouse.cursor_pos))
                   = handle_event(Reg, [type |-> "LeftPress"], now, result)

\* C26: refresh_text_box / refresh_text_edit through a handle whose slot is
\* vacant returns silently and changes nothing in the registry; through a
\* handle whose slot is occupied it sets that widget's last_frame_touched to
\* current_frame and changes nothing else.
C26_RefreshTouchesOnly ==
    [][reg'.last = "refresh" =>
          \E h \in handles :
              /\ ~crashed'
              /\ IF BoxExists(Reg, h)
                 THEN /\ AllWidgets(Reg') =
                             {IF x.kind = h.kind /\ x.i = h.i
                              THEN [x EXCEPT !.w.last_frame_touched = current_frame]
                              ELSE x : x \in AllWidgets(Reg)}
                      /\ text_boxes'.next = text_boxes.next
                      /\ text_edits'.next = text_edits.next
                      /\ Len(text_boxes'.entries) = Len(text_boxes.entries)
                      /\ Len(text_edits'.entries) = Len(text_edits.entries)
                      /\ UNCHANGED <<focused, current_frame, mouse, text_changed,
                                     decorations_changed, using_frame_based_visibility>>
                 ELSE Reg' = Reg]_vars

\* A refresh went through a handle whose slot the sweep had vacated, and one
\* through a handle whose widget was last touched in the frame before.
C26_Witness ==
    /\ reg.last = "refresh"
    /\ ~crashed
    /\ \E h \in handles : ~BoxExists(Reg, h)
    /\ \E h \in handles : /\ BoxExists(Reg, h)
                          /\ BoxWidget(Reg, h).last_frame_touched = current_frame
                          /\ current_frame = 2

\* C27: TextEdit::handle_event on a disabled or hidden widget is a no-op for
\* every event: it returns text_changed = false and decorations_changed =
\* false, and leaves buffer, selection, compose range, history, placeholder
\* state and should_follow_cursor unchanged.
C27_DisabledIsNoOp ==
    ((edit.disabled \/ edit.hidden) /\ ~edit.panicked) =>
        /\ \A c \in TypedChars \cup {"SP"} : on_key_character(edit, <<c>>) = edit
        /\ \A sh \in BOOLEAN, am \in BOOLEAN : on_key_enter(edit, sh, am) = edit
        /\ on_key_backspace(edit) = edit
        /\ on_key_delete(edit) = edit
        /\ \A clip \in Clips : on_key_paste(edit, clip) = edit
        /\ on_key_cut(edit) = edit
        /\ on_key_undo(edit) = edit
        /\ on_key_redo(edit) = edit
        /\ \A i \in CaretPositions(edit.text) : on_key_move(edit, i) = edit
        /\ on_ime_disabled(edit) = edit
        /\ \A t \in Preedits :
               /\ on_ime_commit(edit, t) = edit
               /\ \A c \in {None, Some(<<0, 1>>)} : on_ime_preedit(edit, t, c) = edit
        /\ on_ime_preedit(edit, <<>>, None) = edit
        /\ \A tc \in BOOLEAN, dc \in BOOLEAN :
               handle_event_result(edit, [text_changed |-> tc, decorations_changed |-> dc])
                   = NewTextEventResult

\* A key reached a hidden, enabled edit that holds recorded text.
C27_Witness ==
    /\ obs.last = "edit"
    /\ edit.hidden /\ ~edit.disabled /\ ~edit.panicked
    /\ edit.history.current_position > 0
    /\ edit.text # <<>>

\* C28: a pressed Enter key on a non-composing TextEdit inserts "\n" if and
\* only if single_line is false and the modifiers match newline_mode (Enter:
\* neither action_mod nor Shift; ShiftEnter: Shift without action_mod;
\* CtrlEnter: action_mod without Shift; None: never); in every other case the
\* Enter key leaves buffer and history unchanged.
C28_Matches(mode, shift, action_mod) ==
    \/ mode = "Enter" /\ ~action_mod /\ ~shift
    \/ mode = "ShiftEnter" /\ shift /\ ~action_mod
    \/ mode = "CtrlEnter" /\ action_mod /\ ~shift

\* The buffer with "\n" in place of the selection, the placeholder cleared.
C28_WithNewline(e) ==
    LET base == clear_placeholder(e) IN ReplaceRange(base.text, text_range(base.sel), <<"NL">>)

C28_EnterInsertsIffMatch ==
    (~is_composing(edit) /\ ~edit.panicked) =>
        \A shift \in BOOLEAN, action_mod \in BOOLEAN :
            LET e2 == on_key_enter(edit, shift, action_mod) IN
            IF ~edit.single_line /\ C28_Matches(edit.newline_mode, shift, action_mod)
            THEN e2.text = C28_WithNewline(edit)
            ELSE /\ e2.text = edit.text
                 /\ e2.history = edit.history

\* C28, amended: the same for an edit that is neither disabled nor hidden;
\* when the key inserts nothing the history is unchanged, and the buffer is
\* unchanged unless it is empty with a placeholder configured and not shown,
\* which the end of the event then shows.
C28_EnterInsertsIffMatchEnabled ==
    (~is_composing(edit) /\ ~edit.panicked) =>
        \A shift \in BOOLEAN, action_mod \in BOOLEAN :
            LET e2 == on_key_enter(edit, shift, action_mod) IN
            IF edit.disabled \/ edit.hidden THEN e2 = edit
            ELSE IF ~edit.single_line /\ C28_Matches(edit.newline_mode, shift, action_mod)
            THEN /\ e2.text = C28_WithNewline(edit)
                 /\ ~e2.showing_placeholder
            ELSE /\ e2.history = edit.history
                 /\ IF edit.text = <<>> /\ edit.placeholder_text # None
                       /\ ~edit.showing_placeholder
                    THEN e2.text = Unwrap(edit.placeholder_text) /\ e2.showing_placeholder
                    ELSE e2.text = edit.text

\* Ctrl+Enter put a newline into an edit in CtrlEnter mode.
C28_Witness ==
    /\ obs.last = "edit"
    /\ edit.newline_mode = "CtrlEnter"
    /\ ~edit.single_line /\ ~edit.disabled /\ ~edit.panicked
    /\ edit.text = <<"NL">>
    /\ Len(edit.history.history) = 1

----------------------------------------------------------------------------
\* C29: every add_style, get_text_style_mut and get_text_edit_style_mut gives
\* the style it names a version strictly greater than every version given to
\* any style before, so no version comes back, and the version of a style put
\* into a reused slot is not one the widget has cached.
C29_VersionsIncrease ==
    (sty.last \in {"add_style", "get_text_style_mut", "get_text_edit_style_mut"}) =>
        /\ SlabContains(styles, sty.slot)
        /\ \A u \in sty.before : SlabGet(styles, sty.slot) > u
        /\ sty.seen => /\ text_box.style_id \in sty.before
                       /\ SlabGet(styles, sty.slot) # text_box.style_id
        /\ \A k \in SlabKeys(styles) :
               k # sty.slot => SlabGet(styles, k) < SlabGet(styles, sty.slot)

\* A style was added into slot 1 after the style that was there, whose
\* version the widget had cached through its handle, was removed.
C29_Witness ==
    /\ sty.last = "add_style"
    /\ sty.slot = 1
    /\ text_box.style = 1
    /\ text_box.style_id = 1
    /\ SlabGet(styles, 1) = 2

----------------------------------------------------------------------------
\* The version of the style a widget's handle resolves to: the default
\* style's when the handle's slot is vacant.
C30_Current ==
    IF SlabContains(styles, text_box.style) THEN SlabGet(styles, text_box.style)
    ELSE SlabGet(styles, DEFAULT_STYLE_HANDLE)

C30_RegistryRefresh ==
    (sty.last \in {"refresh_text_box_layout", "refresh_text_edit_layout"}) =>
        /\ (text_box.layout # sty.pre_box.layout)
               <=> (sty.pre_box.needs_relayout \/ sty.pre_box.style_id # C30_Current)
        /\ ~text_box.needs_relayout
        /\ text_box.style_id = C30_Current

C30_ClearedOnlyByRebuild ==
    /\ (sty.pre_box.needs_relayout /\ ~text_box.needs_relayout)
           => text_box.layout # sty.pre_box.layout
    /\ (sty.pre_tbox.needs_relayout /\ ~tbox.needs_relayout)
           => tbox.layout # sty.pre_tbox.layout

\* C30: a layout refresh rebuilds the layout if and only if needs_relayout
\* was set or the widget's cached style version differed from the style's
\* current version; after it needs_relayout is false and the cached version is
\* the style's current version; and no call clears needs_relayout without
\* rebuilding the layout.
C30_RefreshRebuildsIffStale ==
    /\ C30_RegistryRefresh
    /\ (sty.last = "refresh_layout" /\ tbox.style = "Shared") =>
           /\ (tbox.layout # sty.pre_tbox.layout)
                  <=> (sty.pre_tbox.needs_relayout
                       \/ sty.pre_tbox.shared_style_version # shared_style)
           /\ ~tbox.needs_relayout
           /\ tbox.shared_style_version = shared_style
    /\ (sty.last = "refresh_layout" /\ tbox.style = "Unique") =>
           /\ (tbox.layout # sty.pre_tbox.layout) <=> sty.pre_tbox.needs_relayout
           /\ ~tbox.needs_relayout
    /\ C30_ClearedOnlyByRebuild

----------------------------------------------------------------------------
\* C31: when a left press moves the focus from a widget to another widget or
\* to None, that widget's selection is collapsed, its show_cursor is false if
\* it is an edit, decorations_changed is true and focused is the new value:
\* the topmost widget under the cursor, or None when the host passed None.
C31_RefocusClearsOld ==
    [][(reg'.last = "press" /\ focused # None /\ focused' # focused) =>
           /\ ~crashed'
           /\ BoxExists(Reg', Unwrap(focused))
           /\ ~BoxWidget(Reg', Unwrap(focused)).selected
           /\ (Unwrap(focused).kind = "TextEdit")
                  => ~BoxWidget(Reg', Unwrap(focused)).show_cursor
           /\ decorations_changed'
           /\ \/ focused' = find_topmost_at_pos(Reg, mouse.cursor_pos)
              \/ focused' = None /\ reg'.hit = None]_vars

\* A press gave the focus to the text box, which holds a selection; the edit
\* that lost the focus to it has no cursor and no selection.
C31_Witness ==
    /\ reg.last = "press"
    /\ focused = Some([kind |-> "TextBox", i |-> 0])
    /\ reg.prev # None
    /\ SlabContains(text_edits, 0)
    /\ ~SlabGet(text_edits, 0).show_cursor
    /\ ~SlabGet(text_edits, 0).selected
    /\ SlabGet(text_boxes, 0).selected
    /\ decorations_changed

----------------------------------------------------------------------------
\* C32: focused changes only on a pressed left button, on the removal of the
\* focused widget by remove_text_box, remove_text_edit or remove_old_nodes,
\* or on set_text_edit_disabled(true) of the focused edit; the last two leave
\* it None.  Every other event and call leaves focused as it was.
C32_FocusChangesOnlyBy ==
    [][focused' # focused =>
           \/ reg'.last = "press"
           \/ /\ reg'.last \in {"api", "sweep"}
              /\ KilledFocus(Reg, Reg')
              /\ focused' = None
           \/ /\ reg'.last = "disable"
              /\ focused' = None
              /\ Unwrap(focused).kind = "TextEdit"
              /\ BoxWidget(Reg', Unwrap(focused)).disabled]_vars

\* set_text_edit_disabled(true) has just taken the focus from the edit the
\* last press gave it to, with another edit left enabled.
C32_Witness ==
    /\ reg.last = "disable"
    /\ focused = None
    /\ reg.prev # None
    /\ Unwrap(reg.prev).focused = Some(TextEditBox(0))
    /\ SlabContains(text_edits, 0)
    /\ SlabGet(text_edits, 0).id = Unwrap(reg.prev).id
    /\ SlabGet(text_edits, 0).disabled
    /\ SlabContains(text_edits, 1)
    /\ ~SlabGet(text_edits, 1).disabled

----------------------------------------------------------------------------
\* text_changed as prepare_all sees it after its scan: set before the call,
\* or frame-based visibility in use and some widget last touched in the
\* frame before.
C33_Promoted ==
    \/ Unwrap(reg.flags).text_changed
    \/ /\ Unwrap(reg.flags).using_frame_based_visibility
       /\ \E x \in AllWidgets(Reg) : x.w.last_frame_touched = current_frame - 1

\* C33: prepare_all clears the whole renderer iff text_changed is true after
\* the promotion, clears only the decorations iff it is false and
\* decorations_changed is true, and leaves text_changed, decorations_changed
\* and using_frame_based_visibility all false.
C33_PrepareAllClears ==
    reg.last = "prepare" =>
        /\ ~crashed
        /\ (renderer.cleared = "all") <=> C33_Promoted
        /\ (renderer.cleared = "decorations")
               <=> (~C33_Promoted /\ Unwrap(reg.flags).decorations_changed)
        /\ ~text_changed /\ ~decorations_changed /\ ~using_frame_based_visibility

\* A prepare_all that found only the decorations changed, with text on the
\* renderer, and cleared only them.
C33_Witness ==
    /\ reg.last = "prepare"
    /\ renderer.cleared = "decorations"
    /\ renderer.drawn # {}
    /\ focused # None
    /\ ~Unwrap(reg.flags).text_changed
    /\ Unwrap(reg.flags).decorations_changed

\* C34: when prepare_all starts with frame-based visibility in use and
\* text_changed false, and some widget has last_frame_touched equal to
\* current_frame - 1, the renderer is cleared.
C34_JustHiddenClears ==
    (/\ reg.last = "prepare"
     /\ Unwrap(reg.flags).using_frame_based_visibility
     /\ ~Unwrap(reg.flags).text_changed
     /\ \E x \in AllWidgets(Reg) : x.w.last_frame_touched = current_frame - 1)
        => /\ renderer.cleared = "all"
           /\ renderer.drawn = {x.w.id : x \in {y \in AllWidgets(Reg) :
                                    ~y.w.hidden /\ y.w.last_frame_touched = current_frame}}

\* prepare_all started with text_changed false after a frame advance that
\* one widget was refreshed in and the other was not; only the refreshed one
\* is on the renderer.
C34_Witness ==
    /\ reg.last = "prepare"
    /\ Unwrap(reg.flags).using_frame_based_visibility
    /\ ~Unwrap(reg.flags).text_changed
    /\ \E x \in AllWidgets(Reg) : x.w.last_frame_touched = current_frame - 1
    /\ Cardinality(renderer.drawn) = 1
    /\ renderer.cleared = "all"

\* C39: when remove_old_nodes has removed a widget whose text the previous
\* prepare_all put on the renderer, the prepare_all that follows clears the
\* renderer.
C39_SweptWidgetIsCleared ==
    [][(/\ reg.last = "sweep"
        /\ reg'.last = "prepare"
        /\ \E x \in reg.before : x.w.id \in renderer.drawn /\ x.w.id \notin WidgetIds(Reg))
           => renderer'.cleared = "all"]_vars

----------------------------------------------------------------------------
----------------------------------------------------------------------------
\* C36: a single-line text edit always has the newline mode None: entering
\* single-line mode sets None, set_newline_mode changes nothing while
\* single_line is true, and leaving single-line mode sets Enter.
C36_SingleLineHasNoNewlines ==
    [][/\ edit.single_line => edit.newline_mode = "None"
       /\ edit'.single_line => edit'.newline_mode = "None"
       /\ (edit.single_line /\ ~edit'.single_line) => edit'.newline_mode = "Enter"
      ]_vars

\* A single-line edit with text, after API calls, in mode None.
C36_Witness ==
    /\ edit.single_line
    /\ edit.newline_mode = "None"
    /\ edit.text # <<>>
    /\ obs.last = "api"

----------------------------------------------------------------------------
\* C37: after presses of the Delete key at one caret position that were
\* coalesced into one history entry, a single undo gives back the buffer as
\* it was before the first press, the deleted characters in their order.
C37_DeleteRunUndone ==
    (/\ obs.phase = "undoing"
     /\ obs.last = "undo"
     /\ Len(edit.history.history) = 1
     /\ edit.history.current_position = 0)
        => (~edit.panicked /\ edit.text = obs.text0)

----------------------------------------------------------------------------
\* C38: under edits, caret moves, undo and redo, every history entry below
\* current_position has an undo.inserted_range with start <= end <= the
\* length of the buffer, and no undo slices out of range.
C38_InsertedRangesValid ==
    /\ ~edit.panicked
    /\ \A i \in 1..edit.history.current_position :
           ValidRange(edit.text, edit.history.history[i].undo.inserted_range)

\* C38, for the one entry an undo reads: the entry at current_position - 1
\* has an undo.inserted_range inside the buffer and an undo.deleted_range
\* inside undo_text, and no undo or redo so far has sliced out of range.
C38_NextUndoValid ==
    /\ ~edit.panicked
    /\ edit.history.current_position > 0
           => LET last == edit.history.history[edit.history.current_position] IN
              /\ ValidRange(edit.text, last.undo.inserted_range)
              /\ ValidRange(edit.history.undo_text, last.undo.deleted_range)

----------------------------------------------------------------------------
\* C40: the undo.deleted_range values of the history entries tile undo_text
\* in order: the first starts at 0, each one ends where the next starts, and
\* the last ends at the length of undo_text.
C40_DeletedRangesTile ==
    LET h == edit.history
        n == Len(h.history)
        dr(i) == h.history[i].undo.deleted_range
    IN n > 0 => /\ dr(1)[1] = 0
                /\ \A i \in 1..n : dr(i)[1] <= dr(i)[2]
                /\ \A i \in 1..(n - 1) : dr(i)[2] = dr(i + 1)[1]
                /\ dr(n)[2] = Len(h.undo_text)

\* Two entries that each hold deleted text, recorded after an undo made
\* record truncate the history.
C40_Witness ==
    /\ obs.phase = "void"
    /\ ~edit.panicked
    /\ Len(edit.history.history) = 2
    /\ edit.history.current_position = 2
    /\ edit.history.history[1].undo.deleted_range = <<0, 1>>
    /\ edit.history.history[2].undo.deleted_range = <<1, 2>>
    /\ edit.history.redo_text = <<>>

====
